---- MODULE Spec2Model ----
(***************************************************************************)
(* A model of the easel animation engine (src/src/tween.rs and friends).   *)
(*                                                                         *)
(* Floating-point values (the generic `F: Float`, f32 or f64) are modelled *)
(* as exact rationals <<num, den>> in lowest terms with den > 0.  The      *)
(* model therefore decides the claims up to IEEE rounding; all tick        *)
(* counters (u32) stay far below 2^32 within the bounds, so their          *)
(* arithmetic is plain integer arithmetic here.                            *)
(***************************************************************************)
EXTENDS Integers, Sequences, FiniteSets, TLC

VARIABLES tween, pre, ret, op, nplay,
          frames_arg, kf_new, keyframes, kf_ret,
          seq, par,
          stagger, timeline, ids, hits, arg, spring, ease

\* the Keyframes under test and the Sequence / Parallel under test; each
\* specification drives its own component and holds the others at rest
kfvars == <<frames_arg, kf_new, keyframes, kf_ret>>
compvars == <<seq, par>>
morevars == <<stagger, timeline, ids, hits, arg, spring, ease>>

vars == <<tween, pre, ret, op, nplay, kfvars, compvars, morevars>>

(***************************************************************************)
(* Bounds of the model.                                                    *)
(***************************************************************************)
MaxDur == 4
MaxDelay == 2
MaxCount == 2
MaxTicks == 12

\* endpoint values the caller may pass as from / to
Values == {0, 10}

(***************************************************************************)
(* Exact rational arithmetic standing in for the Float trait (float.rs).   *)
(***************************************************************************)
Abs(x) == IF x < 0 THEN -x ELSE x

RECURSIVE Gcd(_, _)
Gcd(a, b) == IF b = 0 THEN a ELSE Gcd(b, a % b)

Rat(n, d) ==
    LET g == Gcd(Abs(n), Abs(d))
        s == IF d < 0 THEN -1 ELSE 1
    IN  <<(s * n) \div g, (s * d) \div g>>

R(i) == <<i, 1>>

zero == R(0)
one == R(1)

neg(a) == <<-a[1], a[2]>>

abs(a) == <<Abs(a[1]), a[2]>>

add(a, b) == Rat(a[1] * b[2] + b[1] * a[2], a[2] * b[2])
sub(a, b) == Rat(a[1] * b[2] - b[1] * a[2], a[2] * b[2])
mul(a, b) == Rat(a[1] * b[1], a[2] * b[2])
div(a, b) == Rat(a[1] * b[2], a[2] * b[1])
lt(a, b) == a[1] * b[2] < b[1] * a[2]
le(a, b) == a[1] * b[2] <= b[1] * a[2]

max(a, b) == IF lt(b, a) THEN a ELSE b
min(a, b) == IF lt(a, b) THEN a ELSE b

\* float.rs: fn clamp(self, min, max) { self.max(min).min(max) }; the std
\* f32::clamp that Tween::progress calls agrees with it on every number
clamp(x, lo, hi) == min(max(x, lo), hi)

\* lerp.rs: impl Lerp<F> for F: *self + (*other - *self) * t
lerp(self, other, t) == add(self, mul(sub(other, self), t))

\* the sum, the difference and the order of a and b taken over the least
\* common denominator, for operands whose denominators are large
add_lcd(a, b) ==
    LET g == Gcd(a[2], b[2])
    IN  Rat(a[1] * (b[2] \div g) + b[1] * (a[2] \div g),
            (a[2] \div g) * b[2])

sub_lcd(a, b) ==
    LET g == Gcd(a[2], b[2])
    IN  Rat(a[1] * (b[2] \div g) - b[1] * (a[2] \div g),
            (a[2] \div g) * b[2])

lt_lcd(a, b) ==
    LET g == Gcd(a[2], b[2])
    IN  a[1] * (b[2] \div g) < b[1] * (a[2] \div g)

(***************************************************************************)
(* Easing (easing.rs).  Two members of the enum are carried by the Tween   *)
(* model, Linear and EaseInQuad; evaluate holds their two arms.  The whole *)
(* enum is Easing_evaluate, further down.                                  *)
(***************************************************************************)
Easings == {"Linear", "EaseInQuad"}

ease_in_quad(t) == mul(t, t)

evaluate(easing, t) ==
    CASE easing = "Linear" -> t
      [] easing = "EaseInQuad" -> ease_in_quad(t)

(***************************************************************************)
(* LoopMode, PlayDirection (loop_mode.rs) and TweenState (state.rs).       *)
(***************************************************************************)
Once == [kind |-> "Once", count |-> 0]
Count(n) == [kind |-> "Count", count |-> n]
Infinite == [kind |-> "Infinite", count |-> 0]
PingPong == [kind |-> "PingPong", count |-> 0]
PingPongCount(n) == [kind |-> "PingPongCount", count |-> n]

LoopModes ==
    {Once, Infinite, PingPong}
        \cup {Count(n) : n \in 0..MaxCount}
        \cup {PingPongCount(n) : n \in 0..MaxCount}

PlayDirection == {"Forward", "Backward"}

TweenState == {"Idle", "Playing", "Paused", "Finished"}

\* a saturating_mul that drops the factor: PingPongCount(n) would stop after n legs
saturating_mul_dropped(a, b) == a

\* u32::saturating_mul; every operand of the model is at most MaxCount + 1,
\* so the product never comes near u32::MAX and no saturation occurs.
saturating_mul(a, b) == a * b

flip(direction) == IF direction = "Forward" THEN "Backward" ELSE "Forward"

(***************************************************************************)
(* Tween (tween.rs).                                                       *)
(***************************************************************************)
Tween_new(from, to, duration) ==
    [from |-> from, to |-> to, duration |-> duration, elapsed |-> 0,
     easing |-> "Linear", state |-> "Playing", loop_mode |-> Once,
     delay |-> 0, delay_remaining |-> 0, loops_completed |-> 0,
     direction |-> "Forward"]

with_easing(self, easing) == [self EXCEPT !.easing = easing]

with_loop(self, mode) == [self EXCEPT !.loop_mode = mode]

with_delay(self, ticks) ==
    [self EXCEPT !.delay = ticks, !.delay_remaining = ticks]

\* a progress() that forgets to invert on the Backward leg
Tween_progress_forward_only(self) ==
    IF self.delay_remaining > 0 THEN zero
    ELSE IF self.duration = 0 THEN one
    ELSE clamp(Rat(self.elapsed, self.duration), zero, one)

Tween_progress(self) ==
    IF self.delay_remaining > 0 THEN zero
    ELSE IF self.duration = 0 THEN one
    ELSE LET raw == clamp(Rat(self.elapsed, self.duration), zero, one)
         IN  IF self.direction = "Forward" THEN raw ELSE sub(one, raw)

Tween_value(self) ==
    IF self.delay_remaining > 0 THEN self.from
    ELSE IF self.duration = 0
         THEN (IF self.direction = "Forward" THEN self.to ELSE self.from)
    ELSE lerp(self.from, self.to, evaluate(self.easing, Tween_progress(self)))

Tween_is_finished(self) == self.state = "Finished"

\* a total_duration() that counts the tick a zero-duration Tween takes
Tween_total_duration_at_least_one(self) ==
    self.delay + (IF self.duration = 0 THEN 1 ELSE self.duration)

Tween_total_duration(self) == self.delay + self.duration

\* a loop table whose Count arm compares with > instead of >=
on_iteration_complete_count_gt(self) ==
    LET m == self.loop_mode
        bumped == [self EXCEPT !.loops_completed = @ + 1]
    IN  CASE m.kind = "Once" -> [self EXCEPT !.state = "Finished"]
          [] m.kind = "Count" ->
                IF m.count = 0 \/ bumped.loops_completed > m.count
                THEN [bumped EXCEPT !.state = "Finished"]
                ELSE [bumped EXCEPT !.elapsed = 0, !.direction = "Forward"]
          [] m.kind = "Infinite" -> [bumped EXCEPT !.elapsed = 0]
          [] m.kind = "PingPong" ->
                [bumped EXCEPT !.elapsed = 0, !.direction = flip(@)]
          [] m.kind = "PingPongCount" ->
                LET max_legs == saturating_mul(m.count, 2)
                IN  IF max_legs = 0 \/ bumped.loops_completed >= max_legs
                    THEN [bumped EXCEPT !.state = "Finished"]
                    ELSE [bumped EXCEPT !.elapsed = 0, !.direction = flip(@)]

\* a loop table whose Infinite arm flips the direction as PingPong does
on_iteration_complete_infinite_flips(self) ==
    LET m == self.loop_mode
        bumped == [self EXCEPT !.loops_completed = @ + 1]
    IN  CASE m.kind = "Once" -> [self EXCEPT !.state = "Finished"]
          [] m.kind = "Count" ->
                IF m.count = 0 \/ bumped.loops_completed >= m.count
                THEN [bumped EXCEPT !.state = "Finished"]
                ELSE [bumped EXCEPT !.elapsed = 0, !.direction = "Forward"]
          [] m.kind \in {"Infinite", "PingPong"} ->
                [bumped EXCEPT !.elapsed = 0, !.direction = flip(@)]
          [] m.kind = "PingPongCount" ->
                LET max_legs == saturating_mul(m.count, 2)
                IN  IF max_legs = 0 \/ bumped.loops_completed >= max_legs
                    THEN [bumped EXCEPT !.state = "Finished"]
                    ELSE [bumped EXCEPT !.elapsed = 0, !.direction = flip(@)]

on_iteration_complete(self) ==
    LET m == self.loop_mode
        bumped == [self EXCEPT !.loops_completed = @ + 1]
    IN  CASE m.kind = "Once" -> [self EXCEPT !.state = "Finished"]
          [] m.kind = "Count" ->
                IF m.count = 0 \/ bumped.loops_completed >= m.count
                THEN [bumped EXCEPT !.state = "Finished"]
                ELSE [bumped EXCEPT !.elapsed = 0, !.direction = "Forward"]
          [] m.kind = "Infinite" -> [bumped EXCEPT !.elapsed = 0]
          [] m.kind = "PingPong" ->
                [bumped EXCEPT !.elapsed = 0, !.direction = flip(@)]
          [] m.kind = "PingPongCount" ->
                LET max_legs == saturating_mul(m.count, 2)
                IN  IF max_legs = 0 \/ bumped.loops_completed >= max_legs
                    THEN [bumped EXCEPT !.state = "Finished"]
                    ELSE [bumped EXCEPT !.elapsed = 0, !.direction = flip(@)]

\* a delay tick that lets the animation advance as well
Tween_tick_delay_advancing(self) ==
    [self |-> [self EXCEPT !.delay_remaining = @ - 1,
                           !.elapsed = IF @ < self.duration THEN @ + 1 ELSE @],
     ret |-> self.from]

\* tick(), delay branch: one tick of delay is consumed, `from` is returned
Tween_tick_delay(self) ==
    [self |-> [self EXCEPT !.delay_remaining = @ - 1], ret |-> self.from]

\* a zero-duration tick that goes through the loop table instead of finishing
Tween_tick_snap_looping(self) ==
    [self |-> on_iteration_complete(self),
     ret |-> IF self.direction = "Forward" THEN self.to ELSE self.from]

\* a zero-duration tick that answers with the wrong endpoint
Tween_tick_snap_swapped(self) ==
    [self |-> [self EXCEPT !.state = "Finished"],
     ret |-> IF self.direction = "Forward" THEN self.from ELSE self.to]

\* tick(), zero-duration branch: finish at once
Tween_tick_snap(self) ==
    [self |-> [self EXCEPT !.state = "Finished"],
     ret |-> IF self.direction = "Forward" THEN self.to ELSE self.from]

\* a tick() that reads the value before it advances elapsed
Tween_tick_advance_stale(self) ==
    LET stepped == IF self.elapsed < self.duration
                   THEN [self EXCEPT !.elapsed = @ + 1]
                   ELSE self
    IN  [self |-> IF stepped.elapsed >= stepped.duration
                  THEN on_iteration_complete(stepped)
                  ELSE stepped,
         ret |-> Tween_value(self)]

\* a tick() that applies the loop table but never rewinds elapsed
Tween_tick_advance_no_rewind(self) ==
    LET stepped == IF self.elapsed < self.duration
                   THEN [self EXCEPT !.elapsed = @ + 1]
                   ELSE self
        value == Tween_value(stepped)
    IN  [self |-> IF stepped.elapsed >= stepped.duration
                  THEN [on_iteration_complete(stepped) EXCEPT
                            !.elapsed = stepped.elapsed]
                  ELSE stepped,
         ret |-> value]

\* tick(), progressing branch
Tween_tick_advance(self) ==
    LET stepped == IF self.elapsed < self.duration
                   THEN [self EXCEPT !.elapsed = @ + 1]
                   ELSE self
        value == Tween_value(stepped)
    IN  [self |-> IF stepped.elapsed >= stepped.duration
                  THEN on_iteration_complete(stepped)
                  ELSE stepped,
         ret |-> value]

\* a tick() that only stops for Finished, so a Paused Tween keeps advancing
Tween_tick_through_pause(self) ==
    IF self.state = "Finished" THEN [self |-> self, ret |-> Tween_value(self)]
    ELSE IF self.delay_remaining > 0 THEN Tween_tick_delay(self)
    ELSE IF self.duration = 0 THEN Tween_tick_snap(self)
    ELSE Tween_tick_advance(self)

Tween_tick(self) ==
    IF self.state # "Playing" THEN [self |-> self, ret |-> Tween_value(self)]
    ELSE IF self.delay_remaining > 0 THEN Tween_tick_delay(self)
    ELSE IF self.duration = 0 THEN Tween_tick_snap(self)
    ELSE Tween_tick_advance(self)

\* a reset() that forgets the direction field
Tween_reset_keeps_direction(self) ==
    [self EXCEPT !.elapsed = 0, !.delay_remaining = self.delay,
                 !.loops_completed = 0, !.state = "Playing"]

\* a reset() that rewinds the delay but not the elapsed counter
Tween_reset_keeps_elapsed(self) ==
    [self EXCEPT !.delay_remaining = self.delay,
                 !.loops_completed = 0, !.direction = "Forward",
                 !.state = "Playing"]

Tween_reset(self) ==
    [self EXCEPT !.elapsed = 0, !.delay_remaining = self.delay,
                 !.loops_completed = 0, !.direction = "Forward",
                 !.state = "Playing"]

Tween_pause(self) ==
    IF self.state = "Playing" THEN [self EXCEPT !.state = "Paused"] ELSE self

\* a resume() that does not look at the state it resumes from
Tween_resume_always(self) == [self EXCEPT !.state = "Playing"]

Tween_resume(self) ==
    IF self.state = "Paused" THEN [self EXCEPT !.state = "Playing"] ELSE self

\* a set_target() that restarts the iteration
set_target_restart(self, new_to) == [self EXCEPT !.to = new_to, !.elapsed = 0]

set_target(self, new_to) == [self EXCEPT !.to = new_to]

set_range(self, new_from, new_to) ==
    [self EXCEPT !.from = new_from, !.to = new_to]

(***************************************************************************)
(* The Tween state machine: a Tween is constructed and configured by the   *)
(* builder calls, then driven by tick / pause / resume / reset /           *)
(* set_target / set_range in any order.                                    *)
(*   pre   - the Tween as it was when the last operation was called        *)
(*   ret   - the value returned by the last tick()                         *)
(*   op    - the last operation called                                     *)
(*   nplay - tick() calls taken while Playing since construction / reset   *)
(* The same pre / ret / op / nplay serve the Sequence and Parallel         *)
(* specifications further down, op and nplay the Keyframes one.            *)
(***************************************************************************)
NoValue == <<0, 0>>

\* no Keyframes has been built / no Sequence or Parallel has been built
KeyframesAtRest ==
    /\ frames_arg = <<>>
    /\ kf_new = "none"
    /\ keyframes = "none"
    /\ kf_ret = NoValue

CompositionAtRest ==
    /\ seq = "none"
    /\ par = "none"

\* no Stagger, Timeline or SpringTween has been built
MoreAtRest ==
    /\ stagger = "none"
    /\ timeline = "none"
    /\ ids = <<>>
    /\ hits = <<>>
    /\ arg = 0
    /\ ease = "none"
    /\ spring = "none"

Init ==
    \E from \in Values, to \in Values, duration \in 0..MaxDur,
       easing \in Easings, mode \in LoopModes, ticks \in 0..MaxDelay :
        /\ tween = with_delay(with_loop(with_easing(
                       Tween_new(R(from), R(to), duration), easing), mode), ticks)
        /\ pre = tween
        /\ ret = NoValue
        /\ op = "new"
        /\ nplay = 0
        /\ KeyframesAtRest
        /\ CompositionAtRest
        /\ MoreAtRest

Tick ==
    /\ pre' = tween
    /\ tween.state = "Playing" => nplay < MaxTicks
    /\ LET r == Tween_tick(tween)
       IN  /\ tween' = r.self
           /\ ret' = r.ret
    /\ op' = "tick"
    /\ nplay' = IF tween.state = "Playing" THEN nplay + 1 ELSE nplay
    /\ UNCHANGED <<kfvars, compvars, morevars>>

Pause ==
    /\ pre' = tween
    /\ tween' = Tween_pause(tween)
    /\ op' = "pause"
    /\ UNCHANGED <<ret, nplay, kfvars, compvars, morevars>>

Resume ==
    /\ pre' = tween
    /\ tween' = Tween_resume(tween)
    /\ op' = "resume"
    /\ UNCHANGED <<ret, nplay, kfvars, compvars, morevars>>

Reset ==
    /\ pre' = tween
    /\ tween' = Tween_reset(tween)
    /\ op' = "reset"
    /\ nplay' = 0
    /\ UNCHANGED <<ret, kfvars, compvars, morevars>>

SetTarget ==
    \E new_to \in Values :
        /\ pre' = tween
        /\ tween' = set_target(tween, R(new_to))
        /\ op' = "set_target"
        /\ UNCHANGED <<ret, nplay, kfvars, compvars, morevars>>

SetRange ==
    \E new_from \in Values, new_to \in Values :
        /\ pre' = tween
        /\ tween' = set_range(tween, R(new_from), R(new_to))
        /\ op' = "set_range"
        /\ UNCHANGED <<ret, nplay, kfvars, compvars, morevars>>

Next == Tick \/ Pause \/ Resume \/ Reset \/ SetTarget \/ SetRange

Spec == Init /\ [][Next]_vars

(***************************************************************************)
(* Shorthands used by the properties below.                                *)
(***************************************************************************)
\* the last operation was a tick() that found the Tween Playing
TickedPlaying == op = "tick" /\ pre.state = "Playing"

\* from + (to - from) * k / D, computed directly
LinearAt(from, to, k, D) == add(from, div(mul(sub(to, from), R(k)), R(D)))

Max(a, b) == IF a >= b THEN a ELSE b
Min(a, b) == IF a <= b THEN a ELSE b

(***************************************************************************)
(* C1: tick() is a no-op unless the state is Playing: on a Paused or       *)
(* Finished Tween it changes no field and returns value(); and a tick()    *)
(* on a Finished Tween that directly follows another tick() (the finishing *)
(* one or a later one) returns the same value as that tick did.            *)
(***************************************************************************)
C1_TickNoOpUnlessPlaying ==
    /\ [](op = "tick" /\ pre.state # "Playing"
            => tween = pre /\ ret = Tween_value(pre))
    /\ [][op = "tick" /\ tween.state = "Finished" /\ op' = "tick"
            => ret' = ret /\ tween' = tween]_vars

\* a Finished Tween with distinct endpoints, not at progress 1, was ticked
C1_Witness ==
    /\ op = "tick"
    /\ pre.state = "Finished"
    /\ pre.loop_mode.kind = "PingPongCount"
    /\ pre.direction = "Backward"
    /\ pre.from # pre.to
    /\ ret = pre.from

(***************************************************************************)
(* C2: a Once / Linear / no-delay Tween of duration D >= 1 returns         *)
(* from + (to - from) * k / D on its k-th playing tick (1 <= k <= D), is   *)
(* finished exactly from tick D on, and every tick after D returns `to`.   *)
(***************************************************************************)
C2_Applies ==
    /\ tween.loop_mode = Once
    /\ tween.easing = "Linear"
    /\ tween.delay = 0
    /\ tween.duration >= 1

C2_LinearOnce ==
    C2_Applies =>
        /\ nplay <= tween.duration
        /\ Tween_is_finished(tween) <=> nplay = tween.duration
        /\ TickedPlaying =>
              ret = LinearAt(tween.from, tween.to, nplay, tween.duration)
        /\ op = "tick" /\ pre.state = "Finished" => ret = tween.to

\* half way through 0 -> 10 over 4 ticks the value is 5
C2_Witness ==
    /\ C2_Applies
    /\ TickedPlaying
    /\ tween.duration = 4
    /\ nplay = 2
    /\ tween.from = R(0)
    /\ tween.to = R(10)
    /\ ret = R(5)
    /\ ~Tween_is_finished(tween)


(***************************************************************************)
(* C3: with with_delay(L), each of the first L playing ticks returns       *)
(* `from`, takes exactly one off delay_remaining and leaves elapsed at 0;  *)
(* tick L+1 is the first tick that advances elapsed (to 1).                *)
(***************************************************************************)
C3_DelayTicks ==
    TickedPlaying /\ nplay <= pre.delay =>
        /\ ret = pre.from
        /\ pre.delay_remaining = pre.delay - (nplay - 1)
        /\ tween = [pre EXCEPT !.delay_remaining = @ - 1]
        /\ tween.elapsed = 0

\* elapsed was advanced from 0 to 1 by the last tick (a duration-1 Tween in a
\* looping mode has it set back to 0 by the loop table within the same tick)
C3_AdvancedToOne ==
    /\ pre.elapsed = 0
    /\ \/ tween.elapsed = 1
       \/ /\ tween.duration = 1
          /\ tween.elapsed = 0
          /\ tween.loops_completed = pre.loops_completed + 1

\* the claim as stated, for every duration (and a delay of at least one tick)
C3_Original ==
    pre.delay >= 1 =>
        /\ C3_DelayTicks
        /\ TickedPlaying /\ nplay = pre.delay + 1 => C3_AdvancedToOne

\* amended: tick L+1 advances elapsed to 1 when duration >= 1 (and returns the
\* value at elapsed 1); a zero-duration Tween finishes on tick L+1, elapsed 0
C3_DelayThenProgress ==
    /\ C3_DelayTicks
    /\ TickedPlaying /\ nplay = pre.delay + 1 /\ pre.duration >= 1 =>
          /\ C3_AdvancedToOne
          /\ ret = lerp(pre.from, pre.to,
                        evaluate(pre.easing, Rat(1, pre.duration)))
    /\ TickedPlaying /\ nplay = pre.delay + 1 /\ pre.duration = 0 =>
          tween.elapsed = 0 /\ Tween_is_finished(tween)

\* the third tick of a Tween delayed by 2 is the first to move
C3_Witness ==
    /\ TickedPlaying
    /\ pre.delay = 2
    /\ nplay = 3
    /\ pre.duration = 4
    /\ tween.elapsed = 1
    /\ pre.from = R(0) /\ pre.to = R(10) /\ pre.easing = "Linear"
    /\ ret = Rat(5, 2)

(***************************************************************************)
(* C4: a Tween of duration 0 finishes on its first tick after the delay    *)
(* and that tick returns `to`, in every loop mode; the loop table is never *)
(* applied (loops_completed stays 0, direction stays Forward).             *)
(***************************************************************************)
C4_ZeroDurationSnaps ==
    tween.duration = 0 =>
        /\ tween.loops_completed = 0
        /\ tween.direction = "Forward"
        /\ tween.elapsed = 0
        /\ nplay <= tween.delay + 1
        /\ Tween_is_finished(tween) <=> nplay = tween.delay + 1
        /\ TickedPlaying /\ nplay = tween.delay + 1 => ret = tween.to

\* a delayed zero-duration PingPong Tween has just snapped to `to`
C4_Witness ==
    /\ tween.duration = 0
    /\ tween.loop_mode = PingPong
    /\ tween.delay = 2
    /\ TickedPlaying
    /\ nplay = 3
    /\ Tween_is_finished(tween)
    /\ tween.from # tween.to
    /\ ret = tween.to

(***************************************************************************)
(* C5: a Count(n) Tween of duration D >= 1 and delay L is Finished exactly *)
(* from playing tick L + max(n,1)*D on, with loops_completed = max(n,1)    *)
(* then; the delay is consumed once and direction is Forward throughout.   *)
(***************************************************************************)
C5_FinishTick == tween.delay + Max(tween.loop_mode.count, 1) * tween.duration

C5_CountFinishes ==
    tween.loop_mode.kind = "Count" /\ tween.duration >= 1 =>
        /\ tween.direction = "Forward"
        /\ nplay <= C5_FinishTick
        /\ Tween_is_finished(tween) <=> nplay = C5_FinishTick
        /\ Tween_is_finished(tween) =>
              tween.loops_completed = Max(tween.loop_mode.count, 1)
        /\ nplay <= tween.delay =>
              tween.delay_remaining = tween.delay - nplay
        /\ nplay >= tween.delay =>
              /\ tween.delay_remaining = 0
              /\ tween.loops_completed = (nplay - tween.delay) \div tween.duration

\* Count(0) is finished after a single iteration; Count(2) after two
C5_Witness ==
    /\ tween.loop_mode = Count(2)
    /\ tween.duration = 3
    /\ tween.delay = 1
    /\ TickedPlaying
    /\ nplay = 7
    /\ Tween_is_finished(tween)
    /\ tween.loops_completed = 2

(***************************************************************************)
(* C6: a PingPongCount(n) Tween, n >= 1, D >= 1, flips direction at every  *)
(* boundary between legs and is Finished exactly when loops_completed      *)
(* reaches 2n, after delay + 2n*D playing ticks; the last leg is Backward  *)
(* and the settled value is `from`.  With n = 0 it finishes after one      *)
(* Forward leg, settled at `to`.                                           *)
(***************************************************************************)
C6_Legs == IF tween.loop_mode.count = 0 THEN 1 ELSE 2 * tween.loop_mode.count

C6_FinishTick == tween.delay + C6_Legs * tween.duration

C6_PingPongCountFinishes ==
    tween.loop_mode.kind = "PingPongCount" /\ tween.duration >= 1 =>
        /\ nplay <= C6_FinishTick
        /\ Tween_is_finished(tween) <=> nplay = C6_FinishTick
        /\ Tween_is_finished(tween) <=> tween.loops_completed = C6_Legs
        /\ nplay >= tween.delay =>
              tween.loops_completed = (nplay - tween.delay) \div tween.duration
        /\ ~Tween_is_finished(tween) =>
              tween.direction = IF tween.loops_completed % 2 = 0
                                THEN "Forward" ELSE "Backward"
        /\ Tween_is_finished(tween) /\ tween.loop_mode.count >= 1 =>
              /\ tween.direction = "Backward"
              /\ Tween_value(tween) = tween.from
              /\ TickedPlaying => ret = tween.from
        /\ Tween_is_finished(tween) /\ tween.loop_mode.count = 0 =>
              /\ tween.direction = "Forward"
              /\ Tween_value(tween) = tween.to
              /\ TickedPlaying => ret = tween.to

\* PingPongCount(2) over 2 ticks: finished on the 8th tick, back at `from`
C6_Witness ==
    /\ tween.loop_mode = PingPongCount(2)
    /\ tween.duration = 2
    /\ tween.delay = 0
    /\ TickedPlaying
    /\ nplay = 8
    /\ Tween_is_finished(tween)
    /\ tween.loops_completed = 4
    /\ tween.from # tween.to
    /\ ret = tween.from

(***************************************************************************)
(* C7: a PingPong Tween of duration D >= 1 returns `to` at tick D; tick    *)
(* D+j of the Backward leg returns the value the Forward leg had at        *)
(* elapsed D-j (j = 1..D, ending at `from`), then direction is Forward     *)
(* again; with Linear easing and from < to the Backward leg's values       *)
(* strictly decrease tick by tick (0 -> 10 over 4: 10, 7.5, 5, 2.5, 0).    *)
(***************************************************************************)
C7_Applies ==
    /\ tween.loop_mode = PingPong
    /\ tween.duration >= 1
    /\ TickedPlaying
    /\ nplay > tween.delay

\* number of the leg the last tick belonged to (0 is the first Forward leg)
C7_Leg == (nplay - tween.delay - 1) \div tween.duration

\* position of the last tick within its leg, 1..D
C7_Pos == ((nplay - tween.delay - 1) % tween.duration) + 1

\* the value at `e` elapsed ticks of a Forward leg
C7_ForwardValue(e) ==
    lerp(tween.from, tween.to,
         evaluate(tween.easing, Rat(e, tween.duration)))

C7_Mirror ==
    C7_Applies =>
        /\ C7_Leg % 2 = 0 => ret = C7_ForwardValue(C7_Pos)
        /\ C7_Leg % 2 = 1 => ret = C7_ForwardValue(tween.duration - C7_Pos)
        /\ C7_Leg % 2 = 0 /\ C7_Pos = tween.duration =>
              ret = tween.to /\ tween.direction = "Backward"
        /\ C7_Leg % 2 = 1 /\ C7_Pos = tween.duration =>
              ret = tween.from /\ tween.direction = "Forward"

\* two playing ticks in a row, the second one on a Backward leg
C7_Decreasing ==
    /\ TickedPlaying
    /\ tween.loop_mode = PingPong
    /\ tween.duration >= 1
    /\ tween.easing = "Linear"
    /\ lt(tween.from, tween.to)
    /\ tween.state = "Playing"
    /\ tween.direction = "Backward"
    /\ op' = "tick"
    => lt(ret', ret)

C7_PingPongMirrors == []C7_Mirror /\ [][C7_Decreasing]_vars

\* 0 -> 10 over 4 ticks: tick 8 ends the Backward leg at 0, Forward is next
C7_Witness ==
    /\ C7_Applies
    /\ tween.duration = 4
    /\ tween.delay = 0
    /\ tween.easing = "Linear"
    /\ tween.from = R(0) /\ tween.to = R(10)
    /\ nplay = 8
    /\ ret = R(0)
    /\ tween.direction = "Forward"
    /\ tween.loops_completed = 2

(***************************************************************************)
(* C8: an Infinite or PingPong Tween of duration D >= 1 never becomes      *)
(* Finished: every D-th progressing tick adds one to loops_completed and   *)
(* sets elapsed back to 0, and no tick changes the state.                  *)
(***************************************************************************)
C8_EndlessLoop ==
    tween.loop_mode \in {Infinite, PingPong} /\ tween.duration >= 1 =>
        /\ ~Tween_is_finished(tween)
        /\ op = "tick" => tween.state = pre.state
        /\ nplay >= tween.delay =>
              /\ tween.loops_completed
                    = (nplay - tween.delay) \div tween.duration
              /\ tween.elapsed = (nplay - tween.delay) % tween.duration

\* the third iteration of an Infinite Tween has just completed
C8_Witness ==
    /\ tween.loop_mode = Infinite
    /\ tween.duration = 3
    /\ TickedPlaying
    /\ nplay = tween.delay + 9
    /\ tween.loops_completed = 3
    /\ tween.elapsed = 0
    /\ tween.state = "Playing"

(***************************************************************************)
(* C9: the state graph of a Tween.  pause() only moves Playing -> Paused,  *)
(* resume() only Paused -> Playing, and either call changes nothing in any *)
(* other state; tick() can only move Playing -> Finished; Finished is left *)
(* only by reset(), which goes to Playing from any state; never Idle.      *)
(***************************************************************************)
C9_StateGraph ==
    /\ tween.state \in {"Playing", "Paused", "Finished"}
    /\ op = "pause" =>
          tween = IF pre.state = "Playing"
                  THEN [pre EXCEPT !.state = "Paused"] ELSE pre
    /\ op = "resume" =>
          tween = IF pre.state = "Paused"
                  THEN [pre EXCEPT !.state = "Playing"] ELSE pre
    /\ op = "tick" =>
          \/ tween.state = pre.state
          \/ pre.state = "Playing" /\ tween.state = "Finished"
    /\ op \in {"set_target", "set_range"} => tween.state = pre.state
    /\ op = "reset" => tween.state = "Playing"
    /\ pre.state = "Finished" /\ tween.state # "Finished" => op = "reset"

\* resume() was called on a Finished Tween
C9_Witness ==
    /\ op = "resume"
    /\ pre.state = "Finished"
    /\ tween.state = "Finished"

(***************************************************************************)
(* C10: set_target changes only `to` and set_range only `from` and `to`,   *)
(* in every state; the tick that follows computes its value at the         *)
(* progress the Tween would have had without the call, against the new     *)
(* endpoints.                                                              *)
(***************************************************************************)
C10_Frame ==
    /\ op = "set_target" => tween = [pre EXCEPT !.to = tween.to]
    /\ op = "set_range" =>
          tween = [pre EXCEPT !.from = tween.from, !.to = tween.to]

\* the value a tick() yields from the progress fields of `old` (the Tween
\* before the retarget) against the endpoints `from` and `to`
C10_Expected(old, from, to) ==
    IF old.delay_remaining > 0 THEN from
    ELSE IF old.duration = 0
         THEN (IF old.direction = "Forward" THEN to ELSE from)
    ELSE LET e == IF old.state = "Playing"
                  THEN Min(old.elapsed + 1, old.duration)
                  ELSE old.elapsed
             raw == Rat(e, old.duration)
             p == IF old.direction = "Forward" THEN raw ELSE sub(one, raw)
         IN  lerp(from, to, evaluate(old.easing, p))

C10_NextTick ==
    op \in {"set_target", "set_range"} /\ op' = "tick" =>
        /\ tween' = [Tween_tick(pre).self EXCEPT !.from = tween.from,
                                                  !.to = tween.to]
        /\ ret' = C10_Expected(pre, tween.from, tween.to)

C10_RetargetKeepsProgress == []C10_Frame /\ [][C10_NextTick]_vars

\* set_target moved `to` of a Tween that was playing mid-flight
C10_Witness ==
    /\ op = "set_target"
    /\ pre.state = "Playing"
    /\ pre.elapsed = 2
    /\ pre.duration = 4
    /\ pre.to # tween.to
    /\ tween.elapsed = 2

(***************************************************************************)
(* C11: after reset(), in any state, the Tween equals a freshly built     *)
(* Tween with the current from/to and the same duration, easing, loop mode *)
(* and delay (Playing, elapsed 0, delay_remaining = delay, no loops,       *)
(* Forward); every operation is a function of the Tween alone, so what     *)
(* follows is what follows on the fresh Tween.                             *)
(***************************************************************************)
C11_Fresh(self) ==
    with_delay(with_loop(with_easing(
        Tween_new(self.from, self.to, self.duration),
        self.easing), self.loop_mode), self.delay)

C11_ResetIsFresh ==
    op = "reset" =>
        /\ tween = C11_Fresh(pre)
        /\ tween.state = "Playing"
        /\ tween.elapsed = 0
        /\ tween.delay_remaining = tween.delay
        /\ tween.loops_completed = 0
        /\ tween.direction = "Forward"

\* reset() was called on a Finished ping-pong Tween that ended Backward
C11_Witness ==
    /\ op = "reset"
    /\ pre.state = "Finished"
    /\ pre.direction = "Backward"
    /\ pre.loops_completed = 2
    /\ pre.delay = 1
    /\ tween.delay_remaining = 1

C12_Rewound ==
    /\ TickedPlaying
    /\ tween.loop_mode.kind \in {"Count", "Infinite"}
    /\ tween.loops_completed = pre.loops_completed + 1
    /\ tween.state = "Playing"

\* the last tick used up the delay of a zero-duration Tween: it returned
\* `from`, value() now snaps to `to`
C12_DelayEndsAtSnap ==
    /\ TickedPlaying
    /\ tween.duration = 0
    /\ pre.delay_remaining = 1

MaxFrames == 3
MaxKeyTick == 2
KfMaxTicks == 6

Keyframe(value, tick, easing) ==
    [value |-> value, tick |-> tick, easing |-> easing]

at(frames, i) == frames[i + 1]

\* u32 / usize saturating_sub
saturating_sub(a, b) == IF a > b THEN a - b ELSE 0

EmptyKeyframes == [kind |-> "EmptyKeyframes"]

KeyframeOutOfOrder(index, tick, prev_tick) ==
    [kind |-> "KeyframeOutOfOrder", index |-> index, tick |-> tick,
     prev_tick |-> prev_tick]

\* Result<_, TweenError>
Ok(value) == [ok |-> TRUE, value |-> value]
Err(error) == [ok |-> FALSE, error |-> error]

\* a validate_frames that reports the window number instead of the frame index
validate_frames_window_index(frames) ==
    IF Len(frames) = 0 THEN Err(EmptyKeyframes)
    ELSE LET bad == {i \in 0..(Len(frames) - 2) :
                        at(frames, i + 1).tick < at(frames, i).tick}
         IN  IF bad = {} THEN Ok("unit")
             ELSE LET i == CHOOSE j \in bad : \A k \in bad : j <= k
                  IN  Err(KeyframeOutOfOrder(i, at(frames, i + 1).tick,
                                             at(frames, i).tick))

\* the first window (i, i+1) whose ticks descend decides the error
validate_frames(frames) ==
    IF Len(frames) = 0 THEN Err(EmptyKeyframes)
    ELSE LET bad == {i \in 0..(Len(frames) - 2) :
                        at(frames, i + 1).tick < at(frames, i).tick}
         IN  IF bad = {} THEN Ok("unit")
             ELSE LET i == CHOOSE j \in bad : \A k \in bad : j <= k
                  IN  Err(KeyframeOutOfOrder(i + 1, at(frames, i + 1).tick,
                                             at(frames, i).tick))

Keyframes_try_new(frames) ==
    LET checked == validate_frames(frames)
    IN  IF ~checked.ok THEN checked
        ELSE Ok([frames |-> frames, elapsed |-> 0, state |-> "Playing",
                 loop_mode |-> Once, loops_completed |-> 0])

Keyframes_with_loop(self, mode) == [self EXCEPT !.loop_mode = mode]

Keyframes_total_duration(self) ==
    IF Len(self.frames) = 0 THEN 0
    ELSE at(self.frames, Len(self.frames) - 1).tick

\* slice::partition_point(|frame| frame.tick <= elapsed) on a list in
\* ascending tick order: the number of frames at or before `elapsed`
partition_point(frames, elapsed) ==
    Cardinality({i \in 0..(Len(frames) - 1) : at(frames, i).tick <= elapsed})

Keyframes_value(self) ==
    LET frames == self.frames
        last == Len(frames) - 1
    IN  IF Len(frames) = 1 THEN at(frames, 0).value
        ELSE IF self.elapsed <= at(frames, 0).tick THEN at(frames, 0).value
        ELSE IF self.elapsed >= at(frames, last).tick
             THEN at(frames, last).value
        ELSE LET idx == partition_point(frames, self.elapsed)
                 i == saturating_sub(idx, 1)
                 a == at(frames, i)
                 b == at(frames, i + 1)
                 segment_duration == saturating_sub(b.tick, a.tick)
                 local_elapsed == saturating_sub(self.elapsed, a.tick)
             IN  IF segment_duration = 0 THEN b.value
                 ELSE lerp(a.value, b.value,
                           evaluate(a.easing,
                                    Rat(local_elapsed, segment_duration)))

Keyframes_is_finished(self) == self.state = "Finished"

Keyframes_on_iteration_complete(self) ==
    LET m == self.loop_mode
        bumped == [self EXCEPT !.loops_completed = @ + 1]
    IN  CASE m.kind = "Once" -> [self EXCEPT !.state = "Finished"]
          [] m.kind = "Count" ->
                IF m.count = 0 \/ bumped.loops_completed >= m.count
                THEN [bumped EXCEPT !.state = "Finished"]
                ELSE [bumped EXCEPT !.elapsed = 0]
          [] m.kind \in {"Infinite", "PingPong"} ->
                [bumped EXCEPT !.elapsed = 0]
          [] m.kind = "PingPongCount" ->
                LET max_legs == saturating_mul(m.count, 2)
                IN  IF max_legs = 0 \/ bumped.loops_completed >= max_legs
                    THEN [bumped EXCEPT !.state = "Finished"]
                    ELSE [bumped EXCEPT !.elapsed = 0]

\* a tick() that finishes a zero-length animation at once, as Timeline does
Keyframes_tick_zero_finishes(self) ==
    IF self.state # "Playing"
    THEN [self |-> self, ret |-> Keyframes_value(self)]
    ELSE LET total == Keyframes_total_duration(self)
             stepped == IF total > 0 /\ self.elapsed < total
                        THEN [self EXCEPT !.elapsed = @ + 1]
                        ELSE self
             value == Keyframes_value(stepped)
         IN  [self |-> IF total = 0
                       THEN [self EXCEPT !.state = "Finished"]
                       ELSE IF stepped.elapsed >= total
                       THEN Keyframes_on_iteration_complete(stepped)
                       ELSE stepped,
              ret |-> value]

Keyframes_tick(self) ==
    IF self.state # "Playing"
    THEN [self |-> self, ret |-> Keyframes_value(self)]
    ELSE LET total == Keyframes_total_duration(self)
             stepped == IF total > 0 /\ self.elapsed < total
                        THEN [self EXCEPT !.elapsed = @ + 1]
                        ELSE self
             value == Keyframes_value(stepped)
         IN  [self |-> IF stepped.elapsed >= total
                       THEN Keyframes_on_iteration_complete(stepped)
                       ELSE stepped,
              ret |-> value]

Keyframes_reset(self) ==
    [self EXCEPT !.elapsed = 0, !.state = "Playing", !.loops_completed = 0]

(***************************************************************************)
(* The Keyframes state machine: try_new is applied to an arbitrary frame   *)
(* list (in order or not, empty or not); a list it accepts is given a loop *)
(* mode and driven by tick / reset.                                        *)
(*   frames_arg - the list passed to try_new                               *)
(*   kf_new     - what try_new returned                                    *)
(*   keyframes  - the Keyframes, when there is one                         *)
(*   kf_ret     - the value returned by the last Keyframes tick()          *)
(***************************************************************************)
KeyframeSet ==
    {Keyframe(R(v), t, e) : v \in Values, t \in 0..MaxKeyTick, e \in Easings}

FrameLists == UNION {[1..n -> KeyframeSet] : n \in 0..MaxFrames}

TweenAtRest ==
    /\ tween = "none"
    /\ pre = "none"
    /\ ret = NoValue

KfInit ==
    \E frames \in FrameLists, mode \in LoopModes :
        /\ frames_arg = frames
        /\ kf_new = Keyframes_try_new(frames)
        /\ keyframes = IF kf_new.ok
                       THEN Keyframes_with_loop(kf_new.value, mode)
                       ELSE "none"
        /\ kf_ret = NoValue
        /\ op = "new"
        /\ nplay = 0
        /\ TweenAtRest
        /\ CompositionAtRest
        /\ MoreAtRest

KfTick ==
    /\ kf_new.ok
    /\ keyframes.state = "Playing" => nplay < KfMaxTicks
    /\ LET r == Keyframes_tick(keyframes)
       IN  /\ keyframes' = r.self
           /\ kf_ret' = r.ret
    /\ op' = "tick"
    /\ nplay' = IF keyframes.state = "Playing" THEN nplay + 1 ELSE nplay
    /\ UNCHANGED <<frames_arg, kf_new, tween, pre, ret, compvars, morevars>>

KfReset ==
    /\ kf_new.ok
    /\ keyframes' = Keyframes_reset(keyframes)
    /\ op' = "reset"
    /\ nplay' = 0
    /\ UNCHANGED <<frames_arg, kf_new, kf_ret, tween, pre, ret, compvars, morevars>>

KfNext == KfTick \/ KfReset

SpecKeyframes == KfInit /\ [][KfNext]_vars

(***************************************************************************)
(* C13: try_new returns Err(EmptyKeyframes) for the empty list; else, if   *)
(* some frame's tick is below its predecessor's, Err(KeyframeOutOfOrder)   *)
(* for the first such index i, with tick = frames[i].tick and prev_tick =  *)
(* frames[i-1].tick; else (equal neighbours included) Ok with elapsed 0,   *)
(* state Playing, loop mode Once.                                          *)
(***************************************************************************)
\* the 0-based indices of the frames that come before their predecessor
C13_Descents ==
    {i \in 1..(Len(frames_arg) - 1) :
        at(frames_arg, i).tick < at(frames_arg, i - 1).tick}

C13_TryNew ==
    /\ frames_arg = <<>> =>
          ~kf_new.ok /\ kf_new.error = [kind |-> "EmptyKeyframes"]
    /\ frames_arg # <<>> /\ C13_Descents # {} =>
          /\ ~kf_new.ok
          /\ kf_new.error.kind = "KeyframeOutOfOrder"
          /\ kf_new.error.index \in C13_Descents
          /\ \A i \in C13_Descents : kf_new.error.index <= i
          /\ kf_new.error.tick = at(frames_arg, kf_new.error.index).tick
          /\ kf_new.error.prev_tick
                = at(frames_arg, kf_new.error.index - 1).tick
    /\ frames_arg # <<>> /\ C13_Descents = {} =>
          /\ kf_new.ok
          /\ kf_new.value.frames = frames_arg
          /\ kf_new.value.elapsed = 0
          /\ kf_new.value.state = "Playing"
          /\ kf_new.value.loop_mode = Once
          /\ kf_new.value.loops_completed = 0

\* a three-frame list whose last frame is the only one out of order
C13_Witness ==
    /\ Len(frames_arg) = 3
    /\ at(frames_arg, 0).tick = 1
    /\ at(frames_arg, 1).tick = 2
    /\ at(frames_arg, 2).tick = 0
    /\ ~kf_new.ok
    /\ kf_new.error = KeyframeOutOfOrder(2, 0, 2)

(***************************************************************************)
(* A Tween and the two-point Keyframes list that describes the same        *)
(* animation, built from the same a, b, D and loop mode and driven in      *)
(* lockstep: every step ticks both, or resets both.                        *)
(***************************************************************************)
NonPingPongModes == {m \in LoopModes : m.kind \in {"Once", "Count", "Infinite"}}

TwoPoint(a, b, D) ==
    <<Keyframe(a, 0, "Linear"), Keyframe(b, D, "Linear")>>

TpInit ==
    \E a \in Values, b \in Values, D \in 0..MaxDur, mode \in NonPingPongModes :
        /\ tween = with_loop(Tween_new(R(a), R(b), D), mode)
        /\ pre = tween
        /\ ret = NoValue
        /\ frames_arg = TwoPoint(R(a), R(b), D)
        /\ kf_new = Keyframes_try_new(frames_arg)
        /\ keyframes = Keyframes_with_loop(kf_new.value, mode)
        /\ kf_ret = NoValue
        /\ op = "new"
        /\ nplay = 0
        /\ CompositionAtRest
        /\ MoreAtRest

TpTick ==
    /\ (tween.state = "Playing" \/ keyframes.state = "Playing")
          => nplay < MaxTicks
    /\ pre' = tween
    /\ LET r == Tween_tick(tween)
           k == Keyframes_tick(keyframes)
       IN  /\ tween' = r.self
           /\ ret' = r.ret
           /\ keyframes' = k.self
           /\ kf_ret' = k.ret
    /\ op' = "tick"
    /\ nplay' = IF tween.state = "Playing" \/ keyframes.state = "Playing"
                THEN nplay + 1 ELSE nplay
    /\ UNCHANGED <<frames_arg, kf_new, compvars, morevars>>

TpReset ==
    /\ pre' = tween
    /\ tween' = Tween_reset(tween)
    /\ keyframes' = Keyframes_reset(keyframes)
    /\ op' = "reset"
    /\ nplay' = 0
    /\ UNCHANGED <<ret, kf_ret, frames_arg, kf_new, compvars, morevars>>

TpNext == TpTick \/ TpReset

SpecTwoPoint == TpInit /\ [][TpNext]_vars

(***************************************************************************)
(* C14: the valid two-point list [(a, 0, Linear), (b, D, Linear)] behaves  *)
(* like Tween::new(a, b, D) with Linear easing and the same non-ping-pong  *)
(* loop mode, for every D for which the list is valid: every tick returns  *)
(* the same value from both, and both become finished on the same tick.    *)
(***************************************************************************)
C14_SameTick ==
    /\ op = "tick" => kf_ret = ret
    /\ Keyframes_is_finished(keyframes) <=> Tween_is_finished(tween)

C14_TwoPointLikeTween == kf_new.ok => C14_SameTick

\* the same, for the lists that span at least one tick
C14_TwoPointLikeTweenFromOne ==
    kf_new.ok /\ Keyframes_total_duration(keyframes) >= 1 => C14_SameTick

\* both have just finished a second pass of a three-tick animation
C14_Witness ==
    /\ op = "tick"
    /\ pre.state = "Playing"
    /\ tween.duration = 3
    /\ tween.from # tween.to
    /\ tween.loop_mode = Count(2)
    /\ nplay = 6
    /\ Tween_is_finished(tween)
    /\ Keyframes_is_finished(keyframes)
    /\ kf_ret = ret

\* the one-tick-old zero-length list under Once: the Tween has snapped to b
C14_ZeroLength ==
    /\ op = "tick"
    /\ nplay = 1
    /\ tween.duration = 0
    /\ tween.loop_mode = Once
    /\ tween.from # tween.to
    /\ ret = tween.to
    /\ kf_ret = tween.from

(***************************************************************************)
(* Shorthands for the Keyframes claims.                                    *)
(***************************************************************************)
\* value() as it would be at elapsed tick E
ValueAt(E) == Keyframes_value([keyframes EXCEPT !.elapsed = E])

\* the highest 0-based index whose keyframe is at or before tick E
HighestAtOrBefore(E) ==
    CHOOSE i \in 0..(Len(frames_arg) - 1) :
        /\ at(frames_arg, i).tick <= E
        /\ \A j \in 0..(Len(frames_arg) - 1) :
              at(frames_arg, j).tick <= E => j <= i

\* elapsed sits on the tick of the first keyframe, which a later one shares
FirstKeyframeTied ==
    /\ Len(frames_arg) >= 2
    /\ at(frames_arg, 1).tick = at(frames_arg, 0).tick
    /\ keyframes.elapsed = at(frames_arg, 0).tick

(***************************************************************************)
(* C15: value() at elapsed tick E is the first keyframe's value when E is  *)
(* before the first keyframe's tick, the last keyframe's value when E is   *)
(* at or after the last keyframe's tick, and otherwise                     *)
(* a.value.lerp(b.value, a.easing((E - a.tick) / (b.tick - a.tick))) for   *)
(* a the highest-indexed keyframe with a.tick <= E and b the next one.     *)
(***************************************************************************)
C15_Expected ==
    LET E == keyframes.elapsed
        first == at(frames_arg, 0)
        last == at(frames_arg, Len(frames_arg) - 1)
    IN  IF E < first.tick THEN first.value
        ELSE IF E >= last.tick THEN last.value
        ELSE LET i == HighestAtOrBefore(E)
                 a == at(frames_arg, i)
                 b == at(frames_arg, i + 1)
             IN  lerp(a.value, b.value,
                      evaluate(a.easing, Rat(E - a.tick, b.tick - a.tick)))

C15_ValueByBracket == kf_new.ok => Keyframes_value(keyframes) = C15_Expected

\* the same, away from a tie at the first keyframe
C15_ValueByBracketUntied ==
    kf_new.ok /\ ~FirstKeyframeTied
        => Keyframes_value(keyframes) = C15_Expected

\* half-way through an eased segment that does not start the list
C15_Witness ==
    /\ kf_new.ok
    /\ Len(frames_arg) = 3
    /\ at(frames_arg, 0).tick = 0
    /\ at(frames_arg, 1).tick = 0
    /\ at(frames_arg, 2).tick = 2
    /\ at(frames_arg, 1).easing = "EaseInQuad"
    /\ at(frames_arg, 1).value = R(0)
    /\ at(frames_arg, 2).value = R(10)
    /\ keyframes.elapsed = 1
    /\ op = "tick"
    /\ kf_ret = Rat(5, 2)

(***************************************************************************)
(* C16: when two or more keyframes share a tick T, value() at elapsed = T  *)
(* is the value of the highest-indexed keyframe with tick T ("later        *)
(* keyframe wins"), wherever the tie is in the list, the first keyframe    *)
(* included.                                                               *)
(***************************************************************************)
C16_TiedAt(T) ==
    Cardinality({i \in 0..(Len(frames_arg) - 1) :
                    at(frames_arg, i).tick = T}) >= 2

C16_LaterKeyframeWins ==
    kf_new.ok /\ C16_TiedAt(keyframes.elapsed)
        => Keyframes_value(keyframes)
             = at(frames_arg, HighestAtOrBefore(keyframes.elapsed)).value

\* the same, for the ties that do not involve the first keyframe
C16_LaterKeyframeWinsAfterFirst ==
    kf_new.ok /\ C16_TiedAt(keyframes.elapsed) /\ ~FirstKeyframeTied
        => Keyframes_value(keyframes)
             = at(frames_arg, HighestAtOrBefore(keyframes.elapsed)).value

\* a tie at the first keyframe, where the two tied values differ
C16_FirstTie ==
    /\ kf_new.ok
    /\ Len(frames_arg) = 3
    /\ at(frames_arg, 0).tick = 0
    /\ at(frames_arg, 1).tick = 0
    /\ at(frames_arg, 2).tick = 2
    /\ at(frames_arg, 0).value = R(0)
    /\ at(frames_arg, 1).value = R(10)
    /\ keyframes.elapsed = 0
    /\ Keyframes_value(keyframes) = R(0)

(***************************************************************************)
(* C17: under LoopMode::PingPong a Keyframes plays forward, then backward: *)
(* the ticks of the second iteration return the values of the first in     *)
(* reverse, ending at the first keyframe's value.                          *)
(***************************************************************************)
C17_InSecondIteration ==
    /\ kf_new.ok
    /\ keyframes.loop_mode = PingPong
    /\ op = "tick"
    /\ at(frames_arg, 0).tick = 0
    /\ Keyframes_total_duration(keyframes) >= 1
    /\ nplay > Keyframes_total_duration(keyframes)
    /\ nplay <= 2 * Keyframes_total_duration(keyframes)

C17_PingPongPlaysBackward ==
    C17_InSecondIteration =>
        /\ kf_ret = ValueAt(2 * Keyframes_total_duration(keyframes) - nplay)
        /\ nplay = 2 * Keyframes_total_duration(keyframes)
              => kf_ret = at(frames_arg, 0).value

\* what the second iteration returns instead: the first iteration again
C17_SecondIterationForward ==
    C17_InSecondIteration =>
        kf_ret = ValueAt(nplay - Keyframes_total_duration(keyframes))

\* [(0, tick 0), (10, tick 2)] under PingPong, four ticks in
C17_Replayed ==
    /\ C17_InSecondIteration
    /\ Len(frames_arg) = 2
    /\ at(frames_arg, 0).value = R(0)
    /\ at(frames_arg, 1).value = R(10)
    /\ at(frames_arg, 1).tick = 2
    /\ nplay = 4
    /\ kf_ret = R(10)

(***************************************************************************)
(* Sequence (tween.rs): child Tweens played one after another.             *)
(***************************************************************************)
MaxChildren == 2
CompMaxDur == 2
CompMaxTicks == 12

Sequence_new ==
    [tweens |-> <<>>, current_index |-> 0, state |-> "Idle",
     loop_mode |-> Once, loops_completed |-> 0]

Sequence_push(self, child) ==
    [self EXCEPT !.tweens = Append(@, child),
                 !.state = IF @ = "Idle" THEN "Playing" ELSE @]

Sequence_with_loop(self, mode) == [self EXCEPT !.loop_mode = mode]

Sequence_value(self) == Tween_value(at(self.tweens, self.current_index))

Sequence_is_finished(self) == self.state = "Finished"

\* a restart() that goes back to index 0 without resetting the children
Sequence_restart_keeps_children(self) ==
    [self EXCEPT !.current_index = 0, !.state = "Playing"]

Sequence_restart(self) ==
    [self EXCEPT !.tweens = [i \in DOMAIN @ |-> Tween_reset(@[i])],
                 !.current_index = 0,
                 !.state = "Playing"]

on_sequence_complete(self) ==
    LET m == self.loop_mode
        bumped == [self EXCEPT !.loops_completed = @ + 1]
    IN  CASE m.kind = "Once" -> [self EXCEPT !.state = "Finished"]
          [] m.kind = "Count" ->
                IF m.count = 0 \/ bumped.loops_completed >= m.count
                THEN [bumped EXCEPT !.state = "Finished"]
                ELSE Sequence_restart(bumped)
          [] m.kind \in {"Infinite", "PingPong"} -> Sequence_restart(bumped)
          [] m.kind = "PingPongCount" ->
                LET max_legs == saturating_mul(m.count, 2)
                IN  IF max_legs = 0 \/ bumped.loops_completed >= max_legs
                    THEN [bumped EXCEPT !.state = "Finished"]
                    ELSE Sequence_restart(bumped)

\* a tick() that reads value() after it has moved on, instead of returning
\* what the ticked child returned
Sequence_tick_value_after(self) ==
    IF self.state # "Playing"
    THEN [self |-> self, ret |-> Sequence_value(self)]
    ELSE LET r == Tween_tick(at(self.tweens, self.current_index))
             ticked == [self EXCEPT !.tweens[self.current_index + 1] = r.self]
             after == IF Tween_is_finished(r.self)
                      THEN IF self.current_index + 1 < Len(self.tweens)
                           THEN [ticked EXCEPT !.current_index = @ + 1]
                           ELSE on_sequence_complete(ticked)
                      ELSE ticked
         IN  [self |-> after, ret |-> Sequence_value(after)]

\* called on a non-empty Sequence only (the assert! of tween.rs:265-268)
Sequence_tick(self) ==
    IF self.state # "Playing"
    THEN [self |-> self, ret |-> Sequence_value(self)]
    ELSE LET r == Tween_tick(at(self.tweens, self.current_index))
             ticked == [self EXCEPT !.tweens[self.current_index + 1] = r.self]
         IN  [self |-> IF Tween_is_finished(r.self)
                       THEN IF self.current_index + 1 < Len(self.tweens)
                            THEN [ticked EXCEPT !.current_index = @ + 1]
                            ELSE on_sequence_complete(ticked)
                       ELSE ticked,
              ret |-> r.ret]

Sequence_reset(self) ==
    [self EXCEPT !.tweens = [i \in DOMAIN @ |-> Tween_reset(@[i])],
                 !.current_index = 0,
                 !.state = IF Len(self.tweens) = 0 THEN "Idle" ELSE "Playing",
                 !.loops_completed = 0]

(***************************************************************************)
(* Parallel (tween.rs): child Tweens played side by side.                  *)
(***************************************************************************)
Parallel_new == [tweens |-> <<>>, state |-> "Idle"]

Parallel_push(self, child) ==
    [self EXCEPT !.tweens = Append(@, child),
                 !.state = IF @ = "Idle" THEN "Playing" ELSE @]

Parallel_values(self) ==
    [i \in DOMAIN self.tweens |-> Tween_value(self.tweens[i])]

Parallel_is_finished(self) == self.state = "Finished"

\* a tick() that finishes as soon as any child has finished
Parallel_tick_any(self) ==
    IF self.state # "Playing"
    THEN [self |-> self, ret |-> Parallel_values(self)]
    ELSE LET r == [i \in DOMAIN self.tweens |-> Tween_tick(self.tweens[i])]
             ticked == [self EXCEPT !.tweens = [i \in DOMAIN r |-> r[i].self]]
         IN  [self |-> IF \E i \in DOMAIN ticked.tweens :
                              Tween_is_finished(ticked.tweens[i])
                       THEN [ticked EXCEPT !.state = "Finished"]
                       ELSE ticked,
              ret |-> [i \in DOMAIN r |-> r[i].ret]]

\* a tick() that does not look at the state before it ticks the children
Parallel_tick_stateless(self) ==
    LET r == [i \in DOMAIN self.tweens |-> Tween_tick(self.tweens[i])]
        ticked == [self EXCEPT !.tweens = [i \in DOMAIN r |-> r[i].self]]
    IN  [self |-> IF \A i \in DOMAIN ticked.tweens :
                         Tween_is_finished(ticked.tweens[i])
                  THEN [ticked EXCEPT !.state = "Finished"]
                  ELSE ticked,
         ret |-> [i \in DOMAIN r |-> r[i].ret]]

Parallel_tick(self) ==
    IF self.state # "Playing"
    THEN [self |-> self, ret |-> Parallel_values(self)]
    ELSE LET r == [i \in DOMAIN self.tweens |-> Tween_tick(self.tweens[i])]
             ticked == [self EXCEPT !.tweens = [i \in DOMAIN r |-> r[i].self]]
         IN  [self |-> IF \A i \in DOMAIN ticked.tweens :
                              Tween_is_finished(ticked.tweens[i])
                       THEN [ticked EXCEPT !.state = "Finished"]
                       ELSE ticked,
              ret |-> [i \in DOMAIN r |-> r[i].ret]]

(***************************************************************************)
(* The children handed to push(): the child pushed at 0-based position i   *)
(* runs from 10*i to 10*(i+1), so that the children's values tell them     *)
(* apart; its duration, delay and loop mode are free.                      *)
(***************************************************************************)
ChildShapes ==
    [duration : 0..CompMaxDur, delay : {0, 1}, mode : {Once, Count(2)}]

Child(i, shape) ==
    with_delay(with_loop(Tween_new(R(10 * i), R(10 * (i + 1)), shape.duration),
                         shape.mode),
               shape.delay)

ChildLists ==
    UNION {{[i \in 1..n |-> Child(i - 1, shapes[i])] :
               shapes \in [1..n -> ChildShapes]} : n \in 0..MaxChildren}

RECURSIVE Sequence_pushed(_)
Sequence_pushed(children) ==
    IF children = <<>> THEN Sequence_new
    ELSE Sequence_push(Sequence_pushed(SubSeq(children, 1, Len(children) - 1)),
                       children[Len(children)])

RECURSIVE Parallel_pushed(_)
Parallel_pushed(children) ==
    IF children = <<>> THEN Parallel_new
    ELSE Parallel_push(Parallel_pushed(SubSeq(children, 1, Len(children) - 1)),
                       children[Len(children)])

(***************************************************************************)
(* The Sequence state machine.  `pre` is the Sequence before the last      *)
(* call, `ret` the value its last tick() returned, `nplay` the ticks taken *)
(* while Playing since construction or reset().                            *)
(***************************************************************************)
SeqInit ==
    \E children \in ChildLists, mode \in LoopModes :
        /\ seq = Sequence_with_loop(Sequence_pushed(children), mode)
        /\ pre = seq
        /\ ret = NoValue
        /\ op = "new"
        /\ nplay = 0
        /\ tween = "none"
        /\ par = "none"
        /\ KeyframesAtRest
        /\ MoreAtRest

SeqTick ==
    /\ Len(seq.tweens) > 0
    /\ seq.state = "Playing" => nplay < CompMaxTicks
    /\ pre' = seq
    /\ LET r == Sequence_tick(seq)
       IN  /\ seq' = r.self
           /\ ret' = r.ret
    /\ op' = "tick"
    /\ nplay' = IF seq.state = "Playing" THEN nplay + 1 ELSE nplay
    /\ UNCHANGED <<tween, par, kfvars, morevars>>

SeqReset ==
    /\ pre' = seq
    /\ seq' = Sequence_reset(seq)
    /\ op' = "reset"
    /\ nplay' = 0
    /\ UNCHANGED <<ret, tween, par, kfvars, morevars>>

SeqNext == SeqTick \/ SeqReset

SpecSequence == SeqInit /\ [][SeqNext]_vars

(***************************************************************************)
(* The Parallel state machine, with the same ghost variables; `ret` is the *)
(* list of values the last tick() returned.                                *)
(***************************************************************************)
ParInit ==
    \E children \in ChildLists :
        /\ par = Parallel_pushed(children)
        /\ pre = par
        /\ ret = <<>>
        /\ op = "new"
        /\ nplay = 0
        /\ tween = "none"
        /\ seq = "none"
        /\ KeyframesAtRest
        /\ MoreAtRest

ParTick ==
    /\ par.state = "Playing" => nplay < CompMaxTicks
    /\ pre' = par
    /\ LET r == Parallel_tick(par)
       IN  /\ par' = r.self
           /\ ret' = r.ret
    /\ op' = "tick"
    /\ nplay' = IF par.state = "Playing" THEN nplay + 1 ELSE nplay
    /\ UNCHANGED <<tween, seq, kfvars, morevars>>

ParNext == ParTick

SpecParallel == ParInit /\ [][ParNext]_vars

(***************************************************************************)
(* Shorthands for the Sequence claims, all about the last call being a     *)
(* tick() of a Playing Sequence.                                           *)
(***************************************************************************)
SeqTickedPlaying == op = "tick" /\ pre.state = "Playing"

\* what the child at current_index did on that tick
SeqChildTick == Tween_tick(at(pre.tweens, pre.current_index))

\* the tick finished the last child: a pass is complete
SeqPassCompleted ==
    /\ SeqTickedPlaying
    /\ Tween_is_finished(SeqChildTick.self)
    /\ pre.current_index + 1 = Len(pre.tweens)

\* a child as push() received it: nothing elapsed, delay whole, Playing
FreshChild(child) ==
    /\ child.elapsed = 0
    /\ child.delay_remaining = child.delay
    /\ child.loops_completed = 0
    /\ child.direction = "Forward"
    /\ child.state = "Playing"

(***************************************************************************)
(* C18: tick() of a non-empty, Playing Sequence ticks only the child at    *)
(* current_index and leaves every other child unchanged; current_index     *)
(* advances by exactly one on the tick that finishes the current child (if *)
(* it is not the last), that tick returns the finishing child's final      *)
(* value, and child i+1 is first ticked only after child i has finished.   *)
(***************************************************************************)
C18_OthersUnchanged ==
    \A j \in 0..(Len(pre.tweens) - 1) :
        j # pre.current_index => at(seq.tweens, j) = at(pre.tweens, j)

C18_IndexAndValue ==
    /\ Len(seq.tweens) = Len(pre.tweens)
    /\ ret = SeqChildTick.ret
    /\ Tween_is_finished(SeqChildTick.self) => ret = SeqChildTick.self.to
    /\ ~Tween_is_finished(SeqChildTick.self)
          => seq.current_index = pre.current_index
    /\ (Tween_is_finished(SeqChildTick.self)
            /\ pre.current_index + 1 < Len(pre.tweens))
          => seq.current_index = pre.current_index + 1

\* children behind current_index are finished, children ahead are untouched
C18_InOrder ==
    seq.state = "Playing" =>
        \A j \in 0..(Len(seq.tweens) - 1) :
            /\ j < seq.current_index => Tween_is_finished(at(seq.tweens, j))
            /\ j > seq.current_index => FreshChild(at(seq.tweens, j))

C18_Original ==
    /\ SeqTickedPlaying =>
          /\ C18_OthersUnchanged
          /\ C18_IndexAndValue
    /\ C18_InOrder

\* as stated, but a tick that completes a pass and restarts resets every child
C18_TicksOnlyCurrent ==
    /\ SeqTickedPlaying =>
          /\ IF SeqPassCompleted /\ seq.state = "Playing"
             THEN /\ seq.current_index = 0
                  /\ \A j \in 0..(Len(seq.tweens) - 1) :
                        /\ FreshChild(at(seq.tweens, j))
                        /\ j # pre.current_index
                              => at(seq.tweens, j)
                                   = Tween_reset(at(pre.tweens, j))
                  /\ at(seq.tweens, pre.current_index)
                        = Tween_reset(SeqChildTick.self)
             ELSE /\ at(seq.tweens, pre.current_index) = SeqChildTick.self
                  /\ C18_OthersUnchanged
          /\ C18_IndexAndValue
    /\ C18_InOrder

\* the tick that finishes the first of two children and hands over
C18_Witness ==
    /\ SeqTickedPlaying
    /\ Len(seq.tweens) = 2
    /\ pre.current_index = 0
    /\ seq.current_index = 1
    /\ at(pre.tweens, 0).duration = 2
    /\ ~Tween_is_finished(at(pre.tweens, 0))
    /\ Tween_is_finished(at(seq.tweens, 0))
    /\ FreshChild(at(seq.tweens, 1))
    /\ ret = R(10)

(***************************************************************************)
(* C19: when the last child finishes, the loop table is applied to the     *)
(* whole Sequence: Once -> Finished; Count(n) -> Finished after max(n, 1)  *)
(* passes; PingPongCount(n) -> Finished after max(2n, 1) passes; Infinite  *)
(* and PingPong -> never Finished.  On every non-terminal outcome every    *)
(* child is reset and playback restarts from index 0; loops_completed      *)
(* grows by one per completed pass, except under Once.                     *)
(***************************************************************************)
\* the number of passes after which the mode finishes; 0 stands for never
C19_Passes(m) ==
    CASE m.kind = "Once" -> 1
      [] m.kind = "Count" -> Max(m.count, 1)
      [] m.kind = "PingPongCount" -> Max(2 * m.count, 1)
      [] m.kind \in {"Infinite", "PingPong"} -> 0

\* passes completed since construction or reset(), by the model's own count
C19_PassesDone ==
    IF seq.loop_mode.kind = "Once"
    THEN IF seq.state = "Finished" THEN 1 ELSE 0
    ELSE seq.loops_completed

C19_OnTick ==
    SeqTickedPlaying =>
        IF SeqPassCompleted
        THEN /\ seq.loops_completed
                  = IF pre.loop_mode.kind = "Once" THEN pre.loops_completed
                    ELSE pre.loops_completed + 1
             /\ seq.state \in {"Playing", "Finished"}
             /\ seq.state = "Finished"
                  <=> C19_PassesDone = C19_Passes(seq.loop_mode)
             /\ seq.state = "Playing" =>
                  /\ seq.current_index = 0
                  /\ \A j \in 0..(Len(seq.tweens) - 1) :
                        FreshChild(at(seq.tweens, j))
        ELSE /\ seq.loops_completed = pre.loops_completed
             /\ seq.state = "Playing"

C19_Restarted ==
    /\ SeqPassCompleted
    /\ Len(seq.tweens) = 2
    /\ seq.loop_mode = Count(2)
    /\ seq.loops_completed = 1
    /\ seq.state = "Playing"
    /\ seq.current_index = 0
    /\ at(pre.tweens, 0).state = "Finished"
    /\ FreshChild(at(seq.tweens, 0))

(***************************************************************************)
(* C20: tick() of a Playing Parallel ticks every child exactly once        *)
(* (finished children too, which stay as they are), returns one value per  *)
(* child in push order, and makes the Parallel Finished on the first tick  *)
(* after which all children are finished, never while one is unfinished.   *)
(***************************************************************************)
C20_AllFinished ==
    \A i \in DOMAIN par.tweens : Tween_is_finished(par.tweens[i])

C20_OnTick ==
    (op = "tick" /\ pre.state = "Playing") =>
        /\ Len(par.tweens) = Len(pre.tweens)
        /\ Len(ret) = Len(pre.tweens)
        /\ \A i \in DOMAIN pre.tweens :
              /\ par.tweens[i] = Tween_tick(pre.tweens[i]).self
              /\ ret[i] = Tween_tick(pre.tweens[i]).ret
              /\ Tween_is_finished(pre.tweens[i])
                    => /\ par.tweens[i] = pre.tweens[i]
                       /\ ret[i] = Tween_value(pre.tweens[i])
        /\ par.state = "Finished" <=> C20_AllFinished

C20_TicksAll ==
    /\ C20_OnTick
    /\ par.state = "Finished" => C20_AllFinished
    /\ par.state = "Playing" => ~C20_AllFinished

\* the longer of two children finishes a tick after the shorter one
C20_Witness ==
    /\ op = "tick"
    /\ pre.state = "Playing"
    /\ Len(par.tweens) = 2
    /\ par.tweens[1].duration = 1
    /\ par.tweens[2].duration = 2
    /\ Tween_is_finished(pre.tweens[1])
    /\ ~Tween_is_finished(pre.tweens[2])
    /\ par.state = "Finished"
    /\ ret = <<R(10), R(20)>>

(***************************************************************************)
(* u32 arithmetic that saturates.  TLC's integers cannot hold 2^32, so the *)
(* model's unsigned integers are Width bits wide; every counter of the     *)
(* model other than Timeline::next_id stays below that limit.              *)
(***************************************************************************)
Width == 4

U32_MAX == 2 ^ Width - 1

saturating_add(a, b) == IF a + b > U32_MAX THEN U32_MAX ELSE a + b

(***************************************************************************)
(* Stagger (tween.rs): child Tweens played side by side, child idx held    *)
(* back until idx * offset ticks have elapsed.                             *)
(***************************************************************************)
MaxOffset == 2

Stagger_new(offset) ==
    [tweens |-> <<>>, offset |-> offset, elapsed |-> 0, state |-> "Idle"]

\* a push() that leaves an Idle Stagger Idle
Stagger_push_stays_idle(self, child) ==
    [self EXCEPT !.tweens = Append(@, child)]

Stagger_push(self, child) ==
    [self EXCEPT !.tweens = Append(@, child),
                 !.state = IF @ = "Idle" THEN "Playing" ELSE @]

Stagger_values(self) ==
    [i \in DOMAIN self.tweens |-> Tween_value(self.tweens[i])]

Stagger_is_finished(self) == self.state = "Finished"

\* a total_duration() that forgets the children's start offsets
Stagger_total_duration_no_offset(self) ==
    LET ends == {Tween_total_duration(self.tweens[i]) :
                 i \in DOMAIN self.tweens}
    IN  IF ends = {} THEN 0
        ELSE CHOOSE m \in ends : \A e \in ends : e <= m

Stagger_total_duration(self) ==
    LET ends == {saturating_mul(i - 1, self.offset)
                    + Tween_total_duration(self.tweens[i]) :
                 i \in DOMAIN self.tweens}
    IN  IF ends = {} THEN 0
        ELSE CHOOSE m \in ends : \A e \in ends : e <= m

Parallel_total_duration(self) ==
    LET ends == {Tween_total_duration(self.tweens[i]) :
                 i \in DOMAIN self.tweens}
    IN  IF ends = {} THEN 0
        ELSE CHOOSE m \in ends : \A e \in ends : e <= m

\* a tick() that releases child idx one tick late (> instead of >=)
Stagger_tick_late(self) ==
    IF self.state # "Playing"
    THEN [self |-> self, ret |-> Stagger_values(self)]
    ELSE LET r == [i \in DOMAIN self.tweens |->
                      LET start == saturating_mul(i - 1, self.offset)
                      IN  IF self.elapsed > start
                          THEN Tween_tick(self.tweens[i])
                          ELSE [self |-> self.tweens[i],
                                ret |-> Tween_value(self.tweens[i])]]
             ticked == [self EXCEPT !.tweens = [i \in DOMAIN r |-> r[i].self]]
         IN  [self |-> IF \A i \in DOMAIN ticked.tweens :
                              Tween_is_finished(ticked.tweens[i])
                       THEN [ticked EXCEPT !.state = "Finished"]
                       ELSE [ticked EXCEPT
                                !.elapsed = saturating_add(@, 1)],
              ret |-> [i \in DOMAIN r |-> r[i].ret]]

\* the child at 0-based idx is i - 1 here: sequences are indexed from 1
Stagger_tick(self) ==
    IF self.state # "Playing"
    THEN [self |-> self, ret |-> Stagger_values(self)]
    ELSE LET r == [i \in DOMAIN self.tweens |->
                      LET start == saturating_mul(i - 1, self.offset)
                      IN  IF self.elapsed >= start
                          THEN Tween_tick(self.tweens[i])
                          ELSE [self |-> self.tweens[i],
                                ret |-> Tween_value(self.tweens[i])]]
             ticked == [self EXCEPT !.tweens = [i \in DOMAIN r |-> r[i].self]]
         IN  [self |-> IF \A i \in DOMAIN ticked.tweens :
                              Tween_is_finished(ticked.tweens[i])
                       THEN [ticked EXCEPT !.state = "Finished"]
                       ELSE [ticked EXCEPT
                                !.elapsed = saturating_add(@, 1)],
              ret |-> [i \in DOMAIN r |-> r[i].ret]]

RECURSIVE Stagger_pushed(_, _)
Stagger_pushed(offset, children) ==
    IF children = <<>> THEN Stagger_new(offset)
    ELSE Stagger_push(
             Stagger_pushed(offset, SubSeq(children, 1, Len(children) - 1)),
             children[Len(children)])

(***************************************************************************)
(* The Stagger state machine; `pre`, `ret` (a list of values), `op` and    *)
(* `nplay` as for Parallel.                                                *)
(***************************************************************************)
StaggerOnly ==
    /\ tween = "none"
    /\ seq = "none"
    /\ par = "none"
    /\ timeline = "none"
    /\ ids = <<>>
    /\ hits = <<>>
    /\ arg = 0
    /\ ease = "none"
    /\ spring = "none"
    /\ KeyframesAtRest

StgInit ==
    \E offset \in 0..MaxOffset, children \in ChildLists :
        /\ stagger = Stagger_pushed(offset, children)
        /\ pre = stagger
        /\ ret = <<>>
        /\ op = "new"
        /\ nplay = 0
        /\ StaggerOnly

StgTick ==
    /\ stagger.state = "Playing" => nplay < CompMaxTicks
    /\ pre' = stagger
    /\ LET r == Stagger_tick(stagger)
       IN  /\ stagger' = r.self
           /\ ret' = r.ret
    /\ op' = "tick"
    /\ nplay' = IF stagger.state = "Playing" THEN nplay + 1 ELSE nplay
    /\ UNCHANGED <<tween, kfvars, compvars, timeline, ids, hits, arg, spring,
                    ease>>

StgNext == StgTick

SpecStagger == StgInit /\ [][StgNext]_vars

(***************************************************************************)
(* C21: in Stagger(offset), child i is not advanced until the Stagger's    *)
(* own elapsed counter reaches i * offset: on Stagger ticks 1..i*offset    *)
(* the child is unchanged and its unticked value() is reported, and it     *)
(* receives its first tick on Stagger tick i*offset + 1.                   *)
(***************************************************************************)
\* nplay is the number of the Stagger tick just taken: the model's own count
C21_HeldBack ==
    (op = "tick" /\ pre.state = "Playing") =>
        /\ Len(ret) = Len(pre.tweens)
        /\ Len(stagger.tweens) = Len(pre.tweens)
        /\ \A i \in 0..(Len(pre.tweens) - 1) :
              IF nplay <= i * pre.offset
              THEN /\ at(stagger.tweens, i) = at(pre.tweens, i)
                   /\ FreshChild(at(stagger.tweens, i))
                   /\ at(ret, i) = Tween_value(at(pre.tweens, i))
              ELSE /\ at(stagger.tweens, i) = Tween_tick(at(pre.tweens, i)).self
                   /\ at(ret, i) = Tween_tick(at(pre.tweens, i)).ret
                   /\ nplay = i * pre.offset + 1
                         => FreshChild(at(pre.tweens, i))

\* tick 3 of a Stagger(2): the second child has just had its first tick
C21_Witness ==
    /\ op = "tick"
    /\ pre.state = "Playing"
    /\ pre.offset = 2
    /\ Len(pre.tweens) = 2
    /\ nplay = 3
    /\ at(pre.tweens, 1).duration = 2
    /\ at(pre.tweens, 1).delay = 0
    /\ FreshChild(at(pre.tweens, 1))
    /\ at(stagger.tweens, 1).elapsed = 1
    /\ at(ret, 1) = R(15)

(***************************************************************************)
(* A Parallel and a Stagger built from the same children and ticked side   *)
(* by side, to compare the tick on which each finishes with its            *)
(* total_duration().                                                       *)
(***************************************************************************)
SbsInit ==
    \E offset \in 0..MaxOffset, children \in ChildLists :
        /\ par = Parallel_pushed(children)
        /\ stagger = Stagger_pushed(offset, children)
        /\ pre = [par |-> par, stagger |-> stagger]
        /\ ret = [par |-> <<>>, stagger |-> <<>>]
        /\ op = "new"
        /\ nplay = 0
        /\ tween = "none"
        /\ seq = "none"
        /\ timeline = "none"
        /\ ids = <<>>
        /\ hits = <<>>
        /\ arg = 0
        /\ ease = "none"
        /\ spring = "none"
        /\ KeyframesAtRest

SbsTick ==
    /\ (par.state = "Playing" \/ stagger.state = "Playing")
          => nplay < CompMaxTicks
    /\ pre' = [par |-> par, stagger |-> stagger]
    /\ LET p == Parallel_tick(par)
           s == Stagger_tick(stagger)
       IN  /\ par' = p.self
           /\ stagger' = s.self
           /\ ret' = [par |-> p.ret, stagger |-> s.ret]
    /\ op' = "tick"
    /\ nplay' = IF par.state = "Playing" \/ stagger.state = "Playing"
                THEN nplay + 1 ELSE nplay
    /\ UNCHANGED <<tween, seq, kfvars, timeline, ids, hits, arg, spring, ease>>

SbsNext == SbsTick

SpecSideBySide == SbsInit /\ [][SbsNext]_vars

(***************************************************************************)
(* C22: with children in Once mode, Parallel and Stagger become finished   *)
(* exactly on tick number total_duration() and not before, where           *)
(* total_duration() is the maximum over the children of the child's total  *)
(* duration (Parallel) or of index * offset + child total duration         *)
(* (Stagger).                                                              *)
(***************************************************************************)
C22_Applies ==
    /\ Len(par.tweens) >= 1
    /\ \A i \in DOMAIN par.tweens : par.tweens[i].loop_mode = Once

\* nplay is the number of ticks taken so far
C22_Original ==
    (C22_Applies /\ op = "tick") =>
        /\ Parallel_is_finished(par) <=> nplay >= Parallel_total_duration(par)
        /\ Stagger_is_finished(stagger)
              <=> nplay >= Stagger_total_duration(stagger)

\* the tick on which the last child finishes: a child takes its delay and
\* then max(duration, 1) ticks, counted from the tick that first reaches it
C22_FinishTick(tweens, offset) ==
    LET ends == {(i - 1) * offset + tweens[i].delay
                    + Max(tweens[i].duration, 1) : i \in DOMAIN tweens}
    IN  CHOOSE m \in ends : \A e \in ends : e <= m

\* the finishing tick is total_duration(), or one more when only children
\* of duration 0 end last
C22_OneMore(tweens, offset) ==
    \A i \in DOMAIN tweens :
        (i - 1) * offset + tweens[i].delay + Max(tweens[i].duration, 1)
              = C22_FinishTick(tweens, offset)
            => tweens[i].duration = 0

C22_FinishOnTotalDuration ==
    C22_Applies =>
        /\ Parallel_is_finished(par)
              <=> nplay >= C22_FinishTick(par.tweens, 0)
        /\ Stagger_is_finished(stagger)
              <=> nplay >= C22_FinishTick(stagger.tweens, stagger.offset)
        /\ C22_FinishTick(par.tweens, 0)
              = Parallel_total_duration(par)
                  + (IF C22_OneMore(par.tweens, 0) THEN 1 ELSE 0)
        /\ C22_FinishTick(stagger.tweens, stagger.offset)
              = Stagger_total_duration(stagger)
                  + (IF C22_OneMore(stagger.tweens, stagger.offset)
                     THEN 1 ELSE 0)

\* Stagger(2) of two plain two-tick children finishes on its tick 4, two
\* ticks after the Parallel of the same children
C22_Witness ==
    /\ C22_Applies
    /\ op = "tick"
    /\ stagger.offset = 2
    /\ Len(stagger.tweens) = 2
    /\ \A i \in DOMAIN stagger.tweens :
          stagger.tweens[i].duration = 2 /\ stagger.tweens[i].delay = 0
    /\ Stagger_total_duration(stagger) = 4
    /\ Parallel_total_duration(par) = 2
    /\ nplay = 4
    /\ pre.stagger.state = "Playing"
    /\ pre.par.state = "Finished"
    /\ Stagger_is_finished(stagger)

(***************************************************************************)
(* Timeline (timeline.rs): timing entries on one shared elapsed counter.   *)
(* An active list is a sequence of <<id, progress>> pairs.                 *)
(***************************************************************************)
TimelineEntry(id, start_tick, duration) ==
    [id |-> id, start_tick |-> start_tick, duration |-> duration]

Timeline_new ==
    [entries |-> <<>>, next_id |-> 0, elapsed |-> 0, state |-> "Playing",
     loop_mode |-> Once, loops_completed |-> 0]

\* an add() that puts the Timeline back into Playing
Timeline_add_resuming(self, start_tick, duration) ==
    [self |-> [self EXCEPT
                  !.next_id = saturating_add(@, 1),
                  !.state = "Playing",
                  !.entries = Append(@, TimelineEntry(self.next_id,
                                                      start_tick, duration))],
     ret |-> self.next_id]

Timeline_add(self, start_tick, duration) ==
    [self |-> [self EXCEPT
                  !.next_id = saturating_add(@, 1),
                  !.entries = Append(@, TimelineEntry(self.next_id,
                                                      start_tick, duration))],
     ret |-> self.next_id]

Timeline_total_duration(self) ==
    LET ends == {saturating_add(self.entries[i].start_tick,
                                self.entries[i].duration) :
                 i \in DOMAIN self.entries}
    IN  IF ends = {} THEN 0
        ELSE CHOOSE m \in ends : \A e \in ends : e <= m

\* an active_entries() whose window is open at its end (tick < end_tick)
active_entries_open_end(self, tick) ==
    LET IsActive(entry) ==
            IF entry.duration = 0 THEN tick = entry.start_tick
            ELSE /\ tick >= entry.start_tick
                 /\ tick < saturating_add(entry.start_tick, entry.duration)
        Progress(entry) ==
            IF entry.duration = 0 THEN one
            ELSE clamp(Rat(saturating_sub(tick, entry.start_tick),
                           entry.duration), zero, one)
        active == SelectSeq(self.entries, IsActive)
    IN  [i \in DOMAIN active |-> <<active[i].id, Progress(active[i])>>]

active_entries(self, tick) ==
    LET IsActive(entry) ==
            IF entry.duration = 0 THEN tick = entry.start_tick
            ELSE /\ tick >= entry.start_tick
                 /\ tick <= saturating_add(entry.start_tick, entry.duration)
        Progress(entry) ==
            IF entry.duration = 0 THEN one
            ELSE clamp(Rat(saturating_sub(tick, entry.start_tick),
                           entry.duration), zero, one)
        active == SelectSeq(self.entries, IsActive)
    IN  [i \in DOMAIN active |-> <<active[i].id, Progress(active[i])>>]

\* a loop table whose Count(n) plays one iteration too many
Timeline_on_iteration_complete_count_gt(self) ==
    LET m == self.loop_mode
        bumped == [self EXCEPT !.loops_completed = @ + 1]
    IN  CASE m.kind = "Once" -> [self EXCEPT !.state = "Finished"]
          [] m.kind = "Count" ->
                IF m.count = 0 \/ bumped.loops_completed > m.count
                THEN [bumped EXCEPT !.state = "Finished"]
                ELSE [bumped EXCEPT !.elapsed = 0]
          [] m.kind \in {"Infinite", "PingPong"} ->
                [bumped EXCEPT !.elapsed = 0]
          [] m.kind = "PingPongCount" ->
                LET max_legs == saturating_mul(m.count, 2)
                IN  IF max_legs = 0 \/ bumped.loops_completed >= max_legs
                    THEN [bumped EXCEPT !.state = "Finished"]
                    ELSE [bumped EXCEPT !.elapsed = 0]

Timeline_on_iteration_complete(self) ==
    LET m == self.loop_mode
        bumped == [self EXCEPT !.loops_completed = @ + 1]
    IN  CASE m.kind = "Once" -> [self EXCEPT !.state = "Finished"]
          [] m.kind = "Count" ->
                IF m.count = 0 \/ bumped.loops_completed >= m.count
                THEN [bumped EXCEPT !.state = "Finished"]
                ELSE [bumped EXCEPT !.elapsed = 0]
          [] m.kind \in {"Infinite", "PingPong"} ->
                [bumped EXCEPT !.elapsed = 0]
          [] m.kind = "PingPongCount" ->
                LET max_legs == saturating_mul(m.count, 2)
                IN  IF max_legs = 0 \/ bumped.loops_completed >= max_legs
                    THEN [bumped EXCEPT !.state = "Finished"]
                    ELSE [bumped EXCEPT !.elapsed = 0]

Timeline_tick(self) ==
    IF self.state # "Playing"
    THEN [self |-> self, ret |-> active_entries(self, self.elapsed)]
    ELSE LET total == Timeline_total_duration(self)
         IN  IF total = 0
             THEN [self |-> [self EXCEPT !.state = "Finished"], ret |-> <<>>]
             ELSE LET stepped == IF self.elapsed < total
                                 THEN [self EXCEPT !.elapsed = @ + 1]
                                 ELSE self
                      active == active_entries(stepped, stepped.elapsed)
                  IN  [self |-> IF stepped.elapsed >= total
                                THEN Timeline_on_iteration_complete(stepped)
                                ELSE stepped,
                       ret |-> active]

\* a seek() that always re-arms the Timeline
Timeline_seek_rearming(self, tick) ==
    [self EXCEPT !.elapsed = tick, !.state = "Playing"]

Timeline_seek(self, tick) ==
    LET sought == [self EXCEPT !.elapsed = tick]
    IN  IF sought.elapsed < Timeline_total_duration(sought)
        THEN [sought EXCEPT !.state = "Playing"]
        ELSE sought

Timeline_is_finished(self) == self.state = "Finished"

Timeline_with_loop(self, mode) == [self EXCEPT !.loop_mode = mode]

Timeline_reset(self) ==
    [self EXCEPT !.elapsed = 0, !.loops_completed = 0, !.state = "Playing"]

(***************************************************************************)
(* The Timeline state machine.  The entries are added before the first     *)
(* tick; then tick, seek and reset are free.                               *)
(*   pre   - the Timeline before the last call                             *)
(*   ret   - the active list returned by the last tick()                   *)
(*   ids   - the ids returned by the add() calls, in call order            *)
(*   nplay - ticks taken while Playing since construction or reset()       *)
(*   arg   - the tick passed to the last call if it was seek(), else 0     *)
(***************************************************************************)
TlMaxStart == 2
TlMaxDur == 2
TlMaxSeek == 3
TlMaxTicks == 6

EntryShapes == [start_tick : 0..TlMaxStart, duration : 0..TlMaxDur]

\* no entry, one entry or two entries
EntryLists == UNION {[1..n -> EntryShapes] : n \in {0, 1, 2}}

\* the loop modes the Timeline is driven under
TlModes == {Once, Count(2), Infinite}

\* the Timeline after add() for each shape in turn, and the ids returned
RECURSIVE Timeline_added(_, _)
Timeline_added(self, shapes) ==
    IF shapes = <<>> THEN [self |-> self, ids |-> <<>>]
    ELSE LET before == Timeline_added(self, SubSeq(shapes, 1, Len(shapes) - 1))
             last == shapes[Len(shapes)]
             r == Timeline_add(before.self, last.start_tick, last.duration)
         IN  [self |-> r.self, ids |-> Append(before.ids, r.ret)]

TimelineOnly ==
    /\ tween = "none"
    /\ seq = "none"
    /\ par = "none"
    /\ stagger = "none"
    /\ arg = 0
    /\ ease = "none"
    /\ spring = "none"
    /\ KeyframesAtRest

TlInit ==
    \E shapes \in EntryLists, mode \in TlModes :
        LET built == Timeline_added(Timeline_with_loop(Timeline_new, mode),
                                    shapes)
        IN  /\ timeline = built.self
            /\ ids = built.ids
            /\ pre = timeline
            /\ ret = <<>>
            /\ op = "new"
            /\ nplay = 0
            /\ hits = <<>>
            /\ TimelineOnly

TlTick ==
    /\ timeline.state = "Playing" => nplay < TlMaxTicks
    /\ pre' = timeline
    /\ arg' = 0
    /\ LET r == Timeline_tick(timeline)
       IN  /\ timeline' = r.self
           /\ ret' = r.ret
    /\ op' = "tick"
    /\ nplay' = IF timeline.state = "Playing" THEN nplay + 1 ELSE nplay
    /\ UNCHANGED <<ids, hits, tween, kfvars, compvars, stagger, spring, ease>>

TlSeek ==
    \E tick \in 0..TlMaxSeek :
        /\ pre' = timeline
        /\ arg' = tick
        /\ timeline' = Timeline_seek(timeline, tick)
        /\ op' = "seek"
        /\ UNCHANGED <<ret, nplay, ids, hits, tween, kfvars, compvars,
                       stagger, spring, ease>>

TlReset ==
    /\ pre' = timeline
    /\ arg' = 0
    /\ timeline' = Timeline_reset(timeline)
    /\ op' = "reset"
    /\ nplay' = 0
    /\ UNCHANGED <<ret, ids, hits, tween, kfvars, compvars, stagger, spring,
                   ease>>

TlNext == TlTick \/ TlSeek \/ TlReset

SpecTimeline == TlInit /\ [][TlNext]_vars

(***************************************************************************)
(* Shorthands for the Timeline claims.                                     *)
(***************************************************************************)
TlTickedPlaying ==
    /\ op = "tick"
    /\ pre.state = "Playing"
    /\ Timeline_total_duration(pre) > 0

\* the 1-based positions of the entries whose window [start, start+duration]
\* contains tick E
InWindow(E) ==
    {i \in DOMAIN pre.entries :
        /\ pre.entries[i].start_tick <= E
        /\ E <= pre.entries[i].start_tick + pre.entries[i].duration}

\* the k-th of them in insertion order
KthInWindow(E, k) ==
    CHOOSE i \in InWindow(E) :
        Cardinality({j \in InWindow(E) : j < i}) = k - 1

\* (E - start) / duration clamped to [0, 1]; 1 for an entry of duration 0
LocalProgress(entry, E) ==
    IF entry.duration = 0 THEN one
    ELSE LET q == Rat(E - entry.start_tick, entry.duration)
         IN  IF lt(q, zero) THEN zero ELSE IF lt(one, q) THEN one ELSE q

\* the entries in window at E, in insertion order, each with its progress
ReportsWindow(E) ==
    /\ Len(ret) = Cardinality(InWindow(E))
    /\ \A k \in 1..Len(ret) :
          LET entry == pre.entries[KthInWindow(E, k)]
          IN  ret[k] = <<entry.id, LocalProgress(entry, E)>>

(***************************************************************************)
(* C23: tick() of a Playing Timeline with total_duration > 0 increments    *)
(* the shared elapsed counter by one (capped at total_duration) and        *)
(* returns, in insertion order, exactly the entries whose window           *)
(* [start, start+duration] contains the new elapsed tick, each paired with *)
(* progress (elapsed - start) / duration clamped to [0, 1].                *)
(***************************************************************************)
C23_Original ==
    TlTickedPlaying =>
        ReportsWindow(Min(pre.elapsed + 1, Timeline_total_duration(pre)))

\* the counter as the tick leaves it before the loop table is applied: one
\* more while below total_duration, else as it was
C23_Stepped ==
    IF pre.elapsed < Timeline_total_duration(pre)
    THEN pre.elapsed + 1 ELSE pre.elapsed

C23_ReportsActive ==
    TlTickedPlaying =>
        /\ ReportsWindow(C23_Stepped)
        /\ timeline.entries = pre.entries
        /\ IF C23_Stepped < Timeline_total_duration(pre)
           THEN timeline.elapsed = C23_Stepped /\ timeline.state = "Playing"
           ELSE \/ timeline.elapsed = C23_Stepped
                     /\ timeline.state = "Finished"
                \/ timeline.elapsed = 0 /\ timeline.state = "Playing"

\* entries (0, 2) and (2, 2): the second tick reports both, the second
\* entry with progress 0
C23_Witness ==
    /\ TlTickedPlaying
    /\ Len(pre.entries) = 2
    /\ pre.entries[1] = TimelineEntry(0, 0, 2)
    /\ pre.entries[2] = TimelineEntry(1, 2, 2)
    /\ pre.elapsed = 1
    /\ timeline.elapsed = 2
    /\ ret = <<(<<0, one>>), (<<1, zero>>)>>

(***************************************************************************)
(* A Timeline that is only ticked (and reset), to count how often each     *)
(* entry is reported.  An iteration starts at elapsed 0 and ends with the  *)
(* tick that applies the loop table.                                       *)
(*   hits - per entry, the number of ticks that reported it active since   *)
(*          the current iteration started (counted up to 2)                *)
(***************************************************************************)
Reported(active, id) == \E k \in DOMAIN active : active[k][1] = id

PulseInit ==
    \E shapes \in EntryLists, mode \in TlModes :
        LET built == Timeline_added(Timeline_with_loop(Timeline_new, mode),
                                    shapes)
        IN  /\ timeline = built.self
            /\ ids = built.ids
            /\ pre = timeline
            /\ ret = <<>>
            /\ op = "new"
            /\ nplay = 0
            /\ hits = [i \in DOMAIN shapes |-> 0]
            /\ TimelineOnly

PulseTick ==
    /\ timeline.state = "Playing" => nplay < TlMaxTicks
    /\ pre' = timeline
    /\ LET r == Timeline_tick(timeline)
           starts == timeline.state = "Playing" /\ timeline.elapsed = 0
       IN  /\ timeline' = r.self
           /\ ret' = r.ret
           /\ hits' = [i \in DOMAIN hits |->
                         Min(2, (IF starts THEN 0 ELSE hits[i])
                                + (IF Reported(r.ret, timeline.entries[i].id)
                                   THEN 1 ELSE 0))]
    /\ op' = "tick"
    /\ nplay' = IF timeline.state = "Playing" THEN nplay + 1 ELSE nplay
    /\ UNCHANGED <<ids, tween, kfvars, compvars, stagger, arg, spring, ease>>

PulseReset ==
    /\ pre' = timeline
    /\ timeline' = Timeline_reset(timeline)
    /\ hits' = [i \in DOMAIN hits |-> 0]
    /\ op' = "reset"
    /\ nplay' = 0
    /\ UNCHANGED <<ret, ids, tween, kfvars, compvars, stagger, arg, spring,
                   ease>>

PulseNext == PulseTick \/ PulseReset

SpecTimelinePulse == PulseInit /\ [][PulseNext]_vars

(***************************************************************************)
(* C24: a zero-duration Timeline entry with start tick s is a pulse: over  *)
(* any run of tick() calls on a fresh Timeline it is reported active on    *)
(* exactly one tick per iteration (the tick whose elapsed equals s) and on *)
(* no other tick, for every s, s = 0 and s = total_duration included.      *)
(***************************************************************************)
\* the last call was the tick that ended an iteration
C24_IterationEnded ==
    /\ op = "tick"
    /\ pre.state = "Playing"
    /\ \/ timeline.state = "Finished"
       \/ timeline.loops_completed > pre.loops_completed

C24_ZeroDuration == {i \in DOMAIN hits : timeline.entries[i].duration = 0}

C24_PulseOnce ==
    \A i \in C24_ZeroDuration :
        /\ hits[i] <= 1
        /\ C24_IterationEnded => hits[i] = 1

\* what holds instead: a pulse that starts after tick 0 is reported once
\* in every iteration, and again by every tick of the Finished Timeline
\* if it sits on total_duration
C24_PulseAfterStart ==
    \A i \in C24_ZeroDuration :
        /\ (op = "tick" /\ pre.state = "Playing")
              => (Reported(ret, timeline.entries[i].id)
                    <=> (timeline.entries[i].start_tick >= 1
                         /\ timeline.entries[i].start_tick
                               = IF pre.elapsed < Timeline_total_duration(pre)
                                 THEN pre.elapsed + 1 ELSE pre.elapsed))
        /\ (C24_IterationEnded /\ timeline.entries[i].start_tick >= 1)
              => hits[i] >= 1
        /\ timeline.state = "Playing" => hits[i] <= 1

\* entries (0, 0) and (0, 2) under Once: the iteration is over and no tick
\* has reported the pulse at tick 0
C24_MissedPulse ==
    /\ C24_IterationEnded
    /\ Len(timeline.entries) = 2
    /\ timeline.entries[1] = TimelineEntry(0, 0, 0)
    /\ timeline.entries[2] = TimelineEntry(1, 0, 2)
    /\ timeline.loop_mode = Once
    /\ nplay = 2
    /\ hits[1] = 0
    /\ hits[2] = 2

(***************************************************************************)
(* A Timeline to which entries keep being added, with tick, seek and reset *)
(* in between, up to and past the limit of the id counter.                 *)
(***************************************************************************)
IdInit ==
    \E mode \in {Once, Infinite} :
        /\ timeline = Timeline_with_loop(Timeline_new, mode)
        /\ ids = <<>>
        /\ pre = timeline
        /\ ret = <<>>
        /\ op = "new"
        /\ nplay = 0
        /\ hits = <<>>
        /\ TimelineOnly

\* every entry is (0, 1): the ids are what matters here
IdAdd ==
    /\ Len(timeline.entries) < U32_MAX + 2
    /\ pre' = timeline
    /\ LET r == Timeline_add(timeline, 0, 1)
       IN  /\ timeline' = r.self
           /\ ids' = Append(ids, r.ret)
    /\ op' = "add"
    /\ UNCHANGED <<ret, nplay, hits, tween, kfvars, compvars, stagger, arg, spring,
                    ease>>

IdTick ==
    /\ timeline.state = "Playing" => nplay < TlMaxTicks
    /\ pre' = timeline
    /\ LET r == Timeline_tick(timeline)
       IN  /\ timeline' = r.self
           /\ ret' = r.ret
    /\ op' = "tick"
    /\ nplay' = IF timeline.state = "Playing" THEN nplay + 1 ELSE nplay
    /\ UNCHANGED <<ids, hits, tween, kfvars, compvars, stagger, arg, spring,
                   ease>>

IdSeek ==
    \E tick \in 0..1 :
        /\ pre' = timeline
        /\ timeline' = Timeline_seek(timeline, tick)
        /\ op' = "seek"
        /\ UNCHANGED <<ret, nplay, ids, hits, tween, kfvars, compvars,
                       stagger, arg, spring, ease>>

IdReset ==
    /\ pre' = timeline
    /\ timeline' = Timeline_reset(timeline)
    /\ op' = "reset"
    /\ nplay' = 0
    /\ UNCHANGED <<ret, ids, hits, tween, kfvars, compvars, stagger, arg, spring,
                    ease>>

IdNext == IdAdd \/ IdTick \/ IdSeek \/ IdReset

SpecTimelineIds == IdInit /\ [][IdNext]_vars

(***************************************************************************)
(* C25: successive add() calls on one Timeline return fresh ids: the first *)
(* is TweenId(0), each later id is strictly greater than all earlier ones, *)
(* and none is returned twice, whatever tick, seek and reset calls come in *)
(* between and however many entries have been added, the u32 limit         *)
(* included.                                                               *)
(***************************************************************************)
C25_FreshIds ==
    /\ Len(ids) >= 1 => ids[1] = 0
    /\ \A j \in DOMAIN ids : \A k \in DOMAIN ids : j < k => ids[j] < ids[k]

\* the same while the counter has not saturated: the k-th add returns k - 1
C25_FreshIdsBelowLimit ==
    \A k \in DOMAIN ids : k <= U32_MAX + 1 => ids[k] = k - 1

\* the add after the one that returned the largest id returns it again
C25_Reused ==
    /\ op = "add"
    /\ Len(ids) = U32_MAX + 2
    /\ ids[U32_MAX + 1] = U32_MAX
    /\ ids[U32_MAX + 2] = U32_MAX
    /\ timeline.entries[U32_MAX + 1].id = timeline.entries[U32_MAX + 2].id

(***************************************************************************)
(* C26: seek(t) sets elapsed to t and runs no loop-policy transition: the  *)
(* entries, next_id, loop_mode and loops_completed are unchanged; the      *)
(* state becomes Playing if t < total_duration(), also from Finished, and  *)
(* is left as it was if t >= total_duration().                             *)
(***************************************************************************)
C26_SeekJumps ==
    op = "seek" =>
        /\ timeline.elapsed = arg
        /\ timeline.entries = pre.entries
        /\ timeline.next_id = pre.next_id
        /\ timeline.loop_mode = pre.loop_mode
        /\ timeline.loops_completed = pre.loops_completed
        /\ arg < Timeline_total_duration(pre) => timeline.state = "Playing"
        /\ arg >= Timeline_total_duration(pre) => timeline.state = pre.state

\* a Finished Timeline with completed loops was sought back before its end
C26_Witness ==
    /\ op = "seek"
    /\ pre.state = "Finished"
    /\ pre.loops_completed = 2
    /\ arg = 1
    /\ timeline.state = "Playing"

\* a Playing Timeline was sought to its end or past it and is still Playing
C26_WitnessPastEnd ==
    /\ op = "seek"
    /\ pre.state = "Playing"
    /\ Timeline_total_duration(pre) > 0
    /\ arg >= Timeline_total_duration(pre)
    /\ timeline.state = "Playing"
    /\ timeline.elapsed = arg

(***************************************************************************)
(* C27: ticking a Finished Timeline is idempotent: every tick() after the  *)
(* one on which the Timeline became Finished, with no seek or reset in     *)
(* between, leaves elapsed, loops_completed and state unchanged and        *)
(* returns the same active list as that tick, also for entries with start  *)
(* 0 and duration 0.                                                       *)
(***************************************************************************)
C27_FinishedTickAgain ==
    /\ op = "tick"
    /\ timeline.state = "Finished"
    /\ op' = "tick"

C27_Idempotent ==
    [][C27_FinishedTickAgain => (timeline' = timeline /\ ret' = ret)]_vars

\* the same, for Timelines whose total duration is positive
C27_IdempotentWithDuration ==
    [][(C27_FinishedTickAgain /\ Timeline_total_duration(timeline) > 0)
          => (timeline' = timeline /\ ret' = ret)]_vars

\* the fields alone: a tick of a Finished Timeline changes none of them
C27_FieldsKept ==
    (op = "tick" /\ pre.state = "Finished") => timeline = pre

\* a Finished Timeline of total duration 0 holding an entry was ticked again
C27_EmptyThenActive ==
    /\ op = "tick"
    /\ pre.state = "Finished"
    /\ Timeline_total_duration(pre) = 0
    /\ Len(pre.entries) >= 1
    /\ Len(ret) = Len(pre.entries)

(***************************************************************************)
(* The three owners of the loop-policy table side by side: a Tween of      *)
(* duration D without delay, a Keyframes whose last tick is D and a        *)
(* Timeline whose total duration is D, under the same LoopMode, ticked     *)
(* and reset together.                                                     *)
(*   pre, ret - the Tween before the last call and its tick's return       *)
(*   kf_ret   - the return of the last Keyframes tick                      *)
(*   hits     - the active list returned by the last Timeline tick         *)
(***************************************************************************)
\* frame lists whose last tick is D: one frame, or two with any first tick
FramesEndingAt(D) ==
    {<<Keyframe(R(10), D, "Linear")>>}
        \cup {<<Keyframe(R(0), s, "Linear"), Keyframe(R(10), D, "Linear")>> :
                 s \in 0..D}

\* entry lists whose total duration is D: one entry ending at D, alone or
\* after an entry of one tick
EntriesEndingAt(D) ==
    {<<[start_tick |-> s, duration |-> D - s]>> : s \in 0..D}
        \cup {<<[start_tick |-> 0, duration |-> 1],
                [start_tick |-> s, duration |-> D - s]>> : s \in 0..D}

TtInit ==
    \E D \in 1..MaxDur, mode \in LoopModes :
        \E frames \in FramesEndingAt(D), shapes \in EntriesEndingAt(D) :
            LET built == Timeline_added(
                             Timeline_with_loop(Timeline_new, mode), shapes)
            IN  /\ tween = with_loop(Tween_new(R(0), R(10), D), mode)
                /\ pre = tween
                /\ ret = NoValue
                /\ frames_arg = frames
                /\ kf_new = Keyframes_try_new(frames_arg)
                /\ keyframes = Keyframes_with_loop(kf_new.value, mode)
                /\ kf_ret = NoValue
                /\ timeline = built.self
                /\ ids = built.ids
                /\ hits = <<>>
                /\ op = "new"
                /\ nplay = 0
                /\ arg = 0
                /\ ease = "none"
                /\ stagger = "none"
                /\ spring = "none"
                /\ CompositionAtRest

TtTick ==
    /\ (tween.state = "Playing" \/ keyframes.state = "Playing"
           \/ timeline.state = "Playing") => nplay < MaxTicks
    /\ pre' = tween
    /\ LET r == Tween_tick(tween)
           k == Keyframes_tick(keyframes)
           t == Timeline_tick(timeline)
       IN  /\ tween' = r.self
           /\ ret' = r.ret
           /\ keyframes' = k.self
           /\ kf_ret' = k.ret
           /\ timeline' = t.self
           /\ hits' = t.ret
    /\ op' = "tick"
    /\ nplay' = IF tween.state = "Playing" \/ keyframes.state = "Playing"
                      \/ timeline.state = "Playing"
                THEN nplay + 1 ELSE nplay
    /\ UNCHANGED <<frames_arg, kf_new, compvars, stagger, ids, arg, spring,
                   ease>>

TtReset ==
    /\ pre' = tween
    /\ tween' = Tween_reset(tween)
    /\ keyframes' = Keyframes_reset(keyframes)
    /\ timeline' = Timeline_reset(timeline)
    /\ op' = "reset"
    /\ nplay' = 0
    /\ UNCHANGED <<ret, kf_ret, hits, frames_arg, kf_new, compvars, stagger,
                   ids, arg, spring, ease>>

TtNext == TtTick \/ TtReset

SpecThreeTables == TtInit /\ [][TtNext]_vars

(***************************************************************************)
(* C28: the three copies of the loop-policy table agree: after every tick  *)
(* the Tween, the Keyframes and the Timeline of the same length D >= 1     *)
(* and the same LoopMode have equal elapsed, equal loops_completed and     *)
(* equal finished status.                                                  *)
(***************************************************************************)
C28_TablesAgree ==
    op = "tick" =>
        /\ keyframes.elapsed = tween.elapsed
        /\ timeline.elapsed = tween.elapsed
        /\ keyframes.loops_completed = tween.loops_completed
        /\ timeline.loops_completed = tween.loops_completed
        /\ Keyframes_is_finished(keyframes) = Tween_is_finished(tween)
        /\ Timeline_is_finished(timeline) = Tween_is_finished(tween)

\* the tick that ended the second leg of PingPongCount(1) finished all three
C28_Witness ==
    /\ op = "tick"
    /\ tween.loop_mode = PingPongCount(1)
    /\ pre.state = "Playing"
    /\ pre.loops_completed = 1
    /\ tween.loops_completed = 2
    /\ timeline.loops_completed = 2
    /\ keyframes.loops_completed = 2
    /\ Tween_is_finished(tween)
    /\ Keyframes_is_finished(keyframes)
    /\ Timeline_is_finished(timeline)

\* the tick that ended the first of the two iterations of Count(2) rewound
\* all three to elapsed 0
C28_Rewound ==
    /\ op = "tick"
    /\ tween.loop_mode = Count(2)
    /\ pre.elapsed = pre.duration - 1
    /\ tween.loops_completed = 1
    /\ tween.elapsed = 0
    /\ timeline.elapsed = 0
    /\ keyframes.elapsed = 0
    /\ ~Timeline_is_finished(timeline)

(***************************************************************************)
(* SpringTween (spring.rs).  The Float operations are exact rationals.     *)
(***************************************************************************)
SpringConfig(stiffness, damping, mass, rest_threshold) ==
    [stiffness |-> stiffness, damping |-> damping, mass |-> mass,
     rest_threshold |-> rest_threshold]

SpringTween_new(initial, target, config) ==
    [value |-> initial, velocity |-> zero, target |-> target,
     config |-> config, at_rest |-> FALSE]

\* the fixed timestep of one tick
dt == Rat(1, 60)

\* a tick() that sets at_rest where the spring stopped, without the snap
SpringTween_tick_no_snap(self) ==
    IF self.at_rest THEN [self |-> self, ret |-> self.value]
    ELSE LET displacement == sub(self.value, self.target)
             force == sub(mul(neg(self.config.stiffness), displacement),
                          mul(self.config.damping, self.velocity))
             acceleration == div(force, self.config.mass)
             velocity == add(self.velocity, mul(acceleration, dt))
             value == add(self.value, mul(velocity, dt))
             displacement_after == sub(value, self.target)
             moved == [self EXCEPT !.velocity = velocity, !.value = value]
             after ==
                 IF /\ lt(abs(velocity), self.config.rest_threshold)
                    /\ lt(abs(displacement_after), self.config.rest_threshold)
                 THEN [moved EXCEPT !.at_rest = TRUE]
                 ELSE moved
         IN  [self |-> after, ret |-> after.value]

SpringTween_tick(self) ==
    IF self.at_rest THEN [self |-> self, ret |-> self.value]
    ELSE LET displacement == sub(self.value, self.target)
             force == sub(mul(neg(self.config.stiffness), displacement),
                          mul(self.config.damping, self.velocity))
             acceleration == div(force, self.config.mass)
             velocity == add(self.velocity, mul(acceleration, dt))
             value == add(self.value, mul(velocity, dt))
             displacement_after == sub(value, self.target)
             moved == [self EXCEPT !.velocity = velocity, !.value = value]
             after ==
                 IF /\ lt(abs(velocity), self.config.rest_threshold)
                    /\ lt(abs(displacement_after), self.config.rest_threshold)
                 THEN [moved EXCEPT !.value = self.target,
                                    !.velocity = zero,
                                    !.at_rest = TRUE]
                 ELSE moved
         IN  [self |-> after, ret |-> after.value]

SpringTween_value(self) == self.value

SpringTween_velocity(self) == self.velocity

SpringTween_is_at_rest(self) == self.at_rest

\* a set_target() that wakes the spring only when the target moves
SpringTween_set_target_if_moved(self, new_target) ==
    [self EXCEPT !.target = new_target,
                 !.at_rest = IF new_target = self.target THEN @ ELSE FALSE]

SpringTween_set_target(self, new_target) ==
    [self EXCEPT !.target = new_target, !.at_rest = FALSE]

SpringTween_reset(self, value, target) ==
    [self EXCEPT !.value = value, !.velocity = zero, !.target = target,
                 !.at_rest = FALSE]

(***************************************************************************)
(* The SpringTween state machine: new, then tick, set_target and reset in  *)
(* any order.                                                              *)
(*   pre   - the SpringTween before the last call                          *)
(*   ret   - the value returned by the last tick()                         *)
(*   nplay - ticks taken while not at rest since construction or reset()   *)
(* The configurations keep stiffness / (60 * mass) a whole number, so the  *)
(* trajectories have small denominators: a spring that stops dead in two   *)
(* ticks, one that halves its displacement every tick, an undamped one     *)
(* that never rests and an overdamped one whose steps grow.  mass is       *)
(* nonzero and every field is finite.                                      *)
(***************************************************************************)
SpMaxTicks == 5

\* positions the caller passes as initial value, target or reset arguments
SpValues == {0, 10, 20}

SpringConfigs ==
    {SpringConfig(R(k), R(c), R(m), th) :
        k \in {1800, 3600}, c \in {0, 60, 120}, m \in {1},
        th \in {zero, Rat(1, 2), R(100)}}
        \cup {SpringConfig(R(7200), R(120), R(2), Rat(1, 2))}

SpringOnly ==
    /\ tween = "none"
    /\ KeyframesAtRest
    /\ CompositionAtRest
    /\ stagger = "none"
    /\ timeline = "none"
    /\ ids = <<>>
    /\ hits = <<>>
    /\ arg = 0
    /\ ease = "none"

SpInit ==
    \E initial \in SpValues, target \in SpValues, config \in SpringConfigs :
        /\ spring = SpringTween_new(R(initial), R(target), config)
        /\ pre = spring
        /\ ret = NoValue
        /\ op = "new"
        /\ nplay = 0
        /\ SpringOnly

SpTick ==
    /\ ~spring.at_rest => nplay < SpMaxTicks
    /\ pre' = spring
    /\ LET r == SpringTween_tick(spring)
       IN  /\ spring' = r.self
           /\ ret' = r.ret
    /\ op' = "tick"
    /\ nplay' = IF spring.at_rest THEN nplay ELSE nplay + 1
    /\ UNCHANGED <<tween, kfvars, compvars, stagger, timeline, ids, hits, arg,
                    ease>>

SpSetTarget ==
    \E new_target \in SpValues :
        /\ pre' = spring
        /\ spring' = SpringTween_set_target(spring, R(new_target))
        /\ op' = "set_target"
        /\ UNCHANGED <<ret, nplay, tween, kfvars, compvars, stagger, timeline,
                       ids, hits, arg, ease>>

SpReset ==
    \E value \in SpValues, target \in SpValues :
        /\ pre' = spring
        /\ spring' = SpringTween_reset(spring, R(value), R(target))
        /\ op' = "reset"
        /\ nplay' = 0
        /\ UNCHANGED <<ret, tween, kfvars, compvars, stagger, timeline, ids,
                       hits, arg, ease>>

SpNext == SpTick \/ SpSetTarget \/ SpReset

SpecSpring == SpInit /\ [][SpNext]_vars

(***************************************************************************)
(* C29: in every state a SpringTween reaches by new, tick, set_target and  *)
(* reset, at_rest implies value = target and velocity = 0; and a tick()    *)
(* of a spring at rest changes no field and returns the settled value.     *)
(***************************************************************************)
C29_RestIsSettled ==
    /\ spring.at_rest =>
          /\ spring.value = spring.target
          /\ spring.velocity = zero
    /\ (op = "tick" /\ pre.at_rest) =>
          /\ spring = pre
          /\ ret = pre.target

\* a spring that needed several ticks to settle was ticked again at rest
C29_Witness ==
    /\ op = "tick"
    /\ pre.at_rest
    /\ nplay >= 3
    /\ spring.target = R(10)
    /\ ret = R(10)

\* the tick on which a moving spring came to rest short of its target and
\* was snapped onto it
C29_Snapped ==
    /\ op = "tick"
    /\ ~pre.at_rest
    /\ spring.at_rest
    /\ nplay >= 3
    /\ pre.value # pre.target
    /\ pre.velocity # zero

(***************************************************************************)
(* C30: set_target always clears at_rest and leaves value and velocity     *)
(* unchanged, also when the new target equals the old one; after           *)
(* set_target(current target) on a resting spring with a positive          *)
(* rest_threshold, one tick() puts the spring back at rest with its value  *)
(* unchanged.                                                              *)
(***************************************************************************)
C30_Wakes ==
    op = "set_target" =>
        /\ ~spring.at_rest
        /\ spring.value = pre.value
        /\ spring.velocity = pre.velocity
        /\ spring.config = pre.config

\* set_target(current target) was just called on a resting spring
C30_WokenInPlace ==
    /\ op = "set_target"
    /\ pre.at_rest
    /\ spring.target = pre.target
    /\ lt(zero, spring.config.rest_threshold)

C30_ResettlesOnTick ==
    (C30_WokenInPlace /\ op' = "tick") =>
        /\ ~spring.at_rest
        /\ spring'.at_rest
        /\ spring'.value = spring.value
        /\ spring'.velocity = zero
        /\ ret' = spring.value

C30_WakeAndResettle == []C30_Wakes /\ [][C30_ResettlesOnTick]_vars

\* a spring that settled on 10 after several ticks was given target 10 again
C30_Witness ==
    /\ C30_WokenInPlace
    /\ nplay >= 3
    /\ spring.target = R(10)
    /\ spring.value = R(10)
    /\ ~spring.at_rest

\* the tick after it: the spring is at rest again on the same value
C30_Resettled ==
    /\ op = "tick"
    /\ ~pre.at_rest
    /\ pre.value = pre.target
    /\ pre.velocity = zero
    /\ lt(zero, pre.config.rest_threshold)
    /\ nplay >= 4
    /\ spring.at_rest
    /\ spring.value = pre.value

(***************************************************************************)
(* C33: in every state a Tween reaches by tick, pause, resume, reset,      *)
(* set_target and set_range: 0 <= elapsed <= duration, delay_remaining <=  *)
(* delay, and while delay_remaining > 0 both elapsed and loops_completed   *)
(* are 0.                                                                  *)
(***************************************************************************)
C33_CountersInRange ==
    /\ 0 <= tween.elapsed
    /\ tween.elapsed <= tween.duration
    /\ 0 <= tween.delay_remaining
    /\ tween.delay_remaining <= tween.delay
    /\ tween.delay_remaining > 0 =>
          /\ tween.elapsed = 0
          /\ tween.loops_completed = 0

\* a Tween that had played into its second iteration was reset and is
\* waiting out its delay again
C33_Witness ==
    /\ op = "reset"
    /\ pre.loops_completed = 1
    /\ pre.elapsed = 1
    /\ pre.delay_remaining = 0
    /\ tween.delay = 2
    /\ tween.delay_remaining = 2
    /\ tween.elapsed = 0

\* elapsed stands at duration on a Finished Tween
C33_AtUpperEnd ==
    /\ op = "tick"
    /\ tween.duration = 3
    /\ tween.elapsed = tween.duration
    /\ Tween_is_finished(tween)

(***************************************************************************)
(* C34: direction is Backward only if the loop mode is PingPong or         *)
(* PingPongCount and duration >= 1: under Once, Count and Infinite, and    *)
(* for every zero-duration Tween, direction is Forward in every reachable  *)
(* state, so the zero-duration `return from when Backward` branch of       *)
(* tick() and value() is never taken.                                      *)
(***************************************************************************)
C34_BackwardOnlyPingPong ==
    /\ tween.direction = "Backward" =>
          /\ tween.loop_mode.kind \in {"PingPong", "PingPongCount"}
          /\ tween.duration >= 1
    /\ (op = "tick" /\ pre.duration = 0 /\ pre.state = "Playing"
            /\ pre.delay_remaining = 0) => ret = pre.to

\* several iterations of an Infinite Tween have ended, none flipped it
C34_Witness ==
    /\ op = "tick"
    /\ tween.loop_mode = Infinite
    /\ tween.duration >= 1
    /\ tween.loops_completed = 2
    /\ pre.loops_completed = 1
    /\ tween.direction = "Forward"

\* a zero-duration PingPong Tween took its one tick and answered `to`
C34_ZeroDurationPingPong ==
    /\ op = "tick"
    /\ pre.state = "Playing"
    /\ pre.duration = 0
    /\ pre.delay_remaining = 0
    /\ pre.loop_mode = PingPong
    /\ pre.from # pre.to
    /\ ret = pre.to
    /\ Tween_is_finished(tween)

(***************************************************************************)
(* Sequence::total_duration and Sequence::progress (tween.rs).             *)
(***************************************************************************)
RECURSIVE SumTotalDuration(_)
SumTotalDuration(tweens) ==
    IF tweens = <<>> THEN 0
    ELSE Tween_total_duration(tweens[1]) + SumTotalDuration(Tail(tweens))

Sequence_total_duration(self) == SumTotalDuration(self.tweens)

\* `x as u32` of a float that is not negative: the fraction is cut off
as_u32(x) == x[1] \div x[2]

\* the loop of progress() over the children 0..n-1
RECURSIVE Sequence_elapsed_ticks(_, _)
Sequence_elapsed_ticks(self, n) ==
    IF n = 0 THEN 0
    ELSE LET idx == n - 1
             child == at(self.tweens, idx)
             before == Sequence_elapsed_ticks(self, idx)
         IN  IF idx < self.current_index
             THEN saturating_add(before, Tween_total_duration(child))
             ELSE IF idx = self.current_index
             THEN LET local == mul(Tween_progress(child),
                                   R(Tween_total_duration(child)))
                  IN  saturating_add(before, as_u32(local))
             ELSE before

Sequence_progress(self) ==
    LET total == Sequence_total_duration(self)
    IN  IF total = 0 THEN one
        ELSE clamp(Rat(Sequence_elapsed_ticks(self, Len(self.tweens)), total),
                   zero, one)

(***************************************************************************)
(* C35: after k ticks of a fresh Sequence (loop Once, Linear children in   *)
(* Once mode), progress() equals min(k, total_duration()) /                *)
(* total_duration(): it never decreases and never changes by more than     *)
(* 1 / total_duration() between consecutive ticks, also when children have *)
(* a start delay or zero duration, and it is 1 when the Sequence is        *)
(* finished.                                                               *)
(***************************************************************************)
C35_Applies ==
    /\ Len(seq.tweens) > 0
    /\ seq.loop_mode = Once
    /\ \A i \in DOMAIN seq.tweens : seq.tweens[i].loop_mode = Once
    /\ Sequence_total_duration(seq) > 0

C35_ProgressIsTicks ==
    C35_Applies =>
        /\ Sequence_progress(seq)
              = Rat(Min(nplay, Sequence_total_duration(seq)),
                    Sequence_total_duration(seq))
        /\ Sequence_is_finished(seq) => Sequence_progress(seq) = one

\* the same for children that all have no delay and a duration of at least 1
C35_PlainChildren ==
    \A i \in DOMAIN seq.tweens :
        seq.tweens[i].delay = 0 /\ seq.tweens[i].duration >= 1

C35_ProgressIsTicksPlain ==
    (C35_Applies /\ C35_PlainChildren) =>
        /\ Sequence_progress(seq)
              = Rat(Min(nplay, Sequence_total_duration(seq)),
                    Sequence_total_duration(seq))
        /\ Sequence_is_finished(seq) => Sequence_progress(seq) = one

\* what holds of every such Sequence: 1 when finished, never beyond the
\* ticks taken
C35_FinishedIsOne ==
    C35_Applies =>
        /\ Sequence_is_finished(seq) => Sequence_progress(seq) = one
        /\ le(Sequence_progress(seq),
              Rat(Min(nplay, Sequence_total_duration(seq)),
                  Sequence_total_duration(seq)))

\* progress() never decreases from one tick to the next
C35_NeverDecreases ==
    [][(C35_Applies /\ op' = "tick")
          => le(Sequence_progress(seq), Sequence_progress(seq'))]_vars

\* progress() never moves by more than one tick's worth
C35_OneTickAtATime ==
    [][(C35_Applies /\ op' = "tick")
          => le(sub(Sequence_progress(seq'), Sequence_progress(seq)),
                Rat(1, Sequence_total_duration(seq)))]_vars

\* the first tick of a child with delay 1 and duration 1 left progress() at 0
C35_StalledInDelay ==
    /\ C35_Applies
    /\ op = "tick"
    /\ nplay = 1
    /\ at(seq.tweens, 0).delay = 1
    /\ at(seq.tweens, 0).duration = 1
    /\ Sequence_progress(seq) = zero

(***************************************************************************)
(* C36: a Sequence in Once mode whose children are all in Once mode        *)
(* becomes Finished after exactly the sum over the children of             *)
(* delay + max(duration, 1) ticks: that is total_duration() when every     *)
(* child has duration >= 1, and each zero-duration child consumes one      *)
(* whole tick that total_duration() does not count.                        *)
(***************************************************************************)
RECURSIVE C36_TicksToFinish(_)
C36_TicksToFinish(tweens) ==
    IF tweens = <<>> THEN 0
    ELSE tweens[1].delay + Max(tweens[1].duration, 1)
            + C36_TicksToFinish(Tail(tweens))

C36_ZeroDurationChildren ==
    Cardinality({i \in DOMAIN seq.tweens : seq.tweens[i].duration = 0})

C36_Applies ==
    /\ Len(seq.tweens) > 0
    /\ seq.loop_mode = Once
    /\ \A i \in DOMAIN seq.tweens : seq.tweens[i].loop_mode = Once

C36_FinishesOnSum ==
    C36_Applies =>
        /\ Sequence_is_finished(seq) <=> nplay >= C36_TicksToFinish(seq.tweens)
        /\ nplay <= C36_TicksToFinish(seq.tweens)
        /\ C36_TicksToFinish(seq.tweens)
              = Sequence_total_duration(seq) + C36_ZeroDurationChildren

\* the finishing tick of a Sequence holding a zero-duration child came one
\* tick after total_duration()
C36_Witness ==
    /\ C36_Applies
    /\ op = "tick"
    /\ pre.state = "Playing"
    /\ Sequence_is_finished(seq)
    /\ Len(seq.tweens) = 2
    /\ at(seq.tweens, 0).duration = 0
    /\ at(seq.tweens, 1).duration = 2
    /\ at(seq.tweens, 1).delay = 1
    /\ Sequence_total_duration(seq) = 3
    /\ nplay = 4

(***************************************************************************)
(* The composition strategies from their empty start.  One of Sequence,    *)
(* Parallel and Stagger is constructed with no children; push() and tick() *)
(* (and value() of a Sequence) are then called in any order.  The          *)
(* assert! at the head of Sequence::tick and Sequence::value ends the      *)
(* call, and the run, with its message.                                    *)
(*   op  - the last call, with the type it was made on                     *)
(*   pre - the object before the last call                                 *)
(*   ret - what the last tick() or value() returned, or the message of     *)
(*         the assertion that ended it                                     *)
(***************************************************************************)
\* the assert! of Sequence::tick and Sequence::value
Sequence_assert(self) == self.tweens # <<>>

Sequence_assert_message == "Sequence requires at least one tween"

SeqCalls == {"Sequence::new", "Sequence::push", "Sequence::tick",
             "Sequence::value"}

ParCalls == {"Parallel::new", "Parallel::push", "Parallel::tick"}

StgCalls == {"Stagger::new", "Stagger::push", "Stagger::tick"}

IdleRest ==
    /\ tween = "none"
    /\ KeyframesAtRest
    /\ timeline = "none"
    /\ ids = <<>>
    /\ hits = <<>>
    /\ arg = 0
    /\ ease = "none"
    /\ spring = "none"
    /\ ret = <<>>
    /\ nplay = 0

IdleInit ==
    /\ IdleRest
    /\ \/ /\ seq = Sequence_new
          /\ par = "none"
          /\ stagger = "none"
          /\ pre = seq
          /\ op = "Sequence::new"
       \/ /\ seq = "none"
          /\ par = Parallel_new
          /\ stagger = "none"
          /\ pre = par
          /\ op = "Parallel::new"
       \/ \E offset \in 0..MaxOffset :
             /\ seq = "none"
             /\ par = "none"
             /\ stagger = Stagger_new(offset)
             /\ pre = stagger
             /\ op = "Stagger::new"

IdleSeqPush ==
    /\ op \in SeqCalls
    /\ Len(seq.tweens) < MaxChildren
    /\ \E shape \in ChildShapes :
          seq' = Sequence_push(seq, Child(Len(seq.tweens), shape))
    /\ pre' = seq
    /\ op' = "Sequence::push"
    /\ UNCHANGED <<ret, nplay, tween, par, kfvars, morevars>>

IdleSeqTick ==
    /\ op \in SeqCalls
    /\ seq.state = "Playing" => nplay < CompMaxTicks
    /\ pre' = seq
    /\ IF Sequence_assert(seq)
       THEN LET r == Sequence_tick(seq)
            IN  /\ seq' = r.self
                /\ ret' = r.ret
                /\ op' = "Sequence::tick"
       ELSE /\ seq' = seq
            /\ ret' = Sequence_assert_message
            /\ op' = "Sequence::tick aborted"
    /\ nplay' = IF seq.state = "Playing" THEN nplay + 1 ELSE nplay
    /\ UNCHANGED <<tween, par, kfvars, morevars>>

IdleSeqValue ==
    /\ op \in SeqCalls
    /\ pre' = seq
    /\ IF Sequence_assert(seq)
       THEN /\ ret' = Sequence_value(seq)
            /\ op' = "Sequence::value"
       ELSE /\ ret' = Sequence_assert_message
            /\ op' = "Sequence::value aborted"
    /\ UNCHANGED <<seq, nplay, tween, par, kfvars, morevars>>

IdleParPush ==
    /\ op \in ParCalls
    /\ Len(par.tweens) < MaxChildren
    /\ \E shape \in ChildShapes :
          par' = Parallel_push(par, Child(Len(par.tweens), shape))
    /\ pre' = par
    /\ op' = "Parallel::push"
    /\ UNCHANGED <<ret, nplay, tween, seq, kfvars, morevars>>

IdleParTick ==
    /\ op \in ParCalls
    /\ par.state = "Playing" => nplay < CompMaxTicks
    /\ pre' = par
    /\ LET r == Parallel_tick(par)
       IN  /\ par' = r.self
           /\ ret' = r.ret
    /\ op' = "Parallel::tick"
    /\ nplay' = IF par.state = "Playing" THEN nplay + 1 ELSE nplay
    /\ UNCHANGED <<tween, seq, kfvars, morevars>>

IdleStgPush ==
    /\ op \in StgCalls
    /\ Len(stagger.tweens) < MaxChildren
    /\ \E shape \in ChildShapes :
          stagger' = Stagger_push(stagger, Child(Len(stagger.tweens), shape))
    /\ pre' = stagger
    /\ op' = "Stagger::push"
    /\ UNCHANGED <<ret, nplay, tween, kfvars, compvars, timeline, ids, hits,
                   arg, spring, ease>>

IdleStgTick ==
    /\ op \in StgCalls
    /\ stagger.state = "Playing" => nplay < CompMaxTicks
    /\ pre' = stagger
    /\ LET r == Stagger_tick(stagger)
       IN  /\ stagger' = r.self
           /\ ret' = r.ret
    /\ op' = "Stagger::tick"
    /\ nplay' = IF stagger.state = "Playing" THEN nplay + 1 ELSE nplay
    /\ UNCHANGED <<tween, kfvars, compvars, timeline, ids, hits, arg, spring,
                    ease>>

IdleNext ==
    \/ IdleSeqPush \/ IdleSeqTick \/ IdleSeqValue
    \/ IdleParPush \/ IdleParTick
    \/ IdleStgPush \/ IdleStgTick

SpecIdle == IdleInit /\ [][IdleNext]_vars

(***************************************************************************)
(* C37: a composition with no children starts in state Idle; tick() and    *)
(* value() on an empty Sequence abort with the assertion `Sequence         *)
(* requires at least one tween`, while tick() on an empty Parallel or      *)
(* Stagger returns an empty list, changes nothing and leaves the state     *)
(* Idle, so it never becomes Finished; the first push moves Idle to        *)
(* Playing.                                                                *)
(***************************************************************************)
C37_EmptyCompositions ==
    /\ op \in {"Sequence::new", "Parallel::new", "Stagger::new"} =>
          pre.tweens = <<>> /\ pre.state = "Idle"
    /\ op \in {"Sequence::tick", "Sequence::value"} => pre.tweens # <<>>
    /\ op \in {"Sequence::tick aborted", "Sequence::value aborted"} =>
          /\ pre.tweens = <<>>
          /\ ret = Sequence_assert_message
          /\ seq = pre
    /\ (op \in {"Parallel::tick", "Stagger::tick"} /\ pre.tweens = <<>>) =>
          /\ ret = <<>>
          /\ pre.state = "Idle"
          /\ (IF op = "Parallel::tick" THEN par ELSE stagger) = pre
    /\ (op \in {"Sequence::push", "Parallel::push", "Stagger::push"}
           /\ pre.state = "Idle") =>
          (CASE op = "Sequence::push" -> seq
             [] op = "Parallel::push" -> par
             [] op = "Stagger::push" -> stagger).state = "Playing"
    /\ (op \in SeqCalls /\ seq.tweens = <<>>) => seq.state = "Idle"
    /\ (op \in ParCalls /\ par.tweens = <<>>) => par.state = "Idle"
    /\ (op \in StgCalls /\ stagger.tweens = <<>>) => stagger.state = "Idle"

\* tick() of an empty Sequence was ended by its assertion
C37_Witness ==
    /\ op = "Sequence::tick aborted"
    /\ pre.tweens = <<>>
    /\ pre.state = "Idle"
    /\ ret = Sequence_assert_message

\* an empty Stagger was ticked twice and is still Idle
C37_StillIdle ==
    /\ op = "Stagger::tick"
    /\ pre.tweens = <<>>
    /\ stagger.state = "Idle"
    /\ stagger.elapsed = 0
    /\ ret = <<>>

\* an empty Parallel was ticked and then given its first child
C37_FirstPush ==
    /\ op = "Parallel::push"
    /\ pre.state = "Idle"
    /\ par.state = "Playing"
    /\ Len(par.tweens) = 1

(***************************************************************************)
(* C38: Stagger::new(0) is equivalent to Parallel: built from the same     *)
(* children in the same order, both return the same value list on every    *)
(* tick and become finished on the same tick.                              *)
(***************************************************************************)
C38_ZeroOffsetIsParallel ==
    stagger.offset = 0 =>
        /\ stagger.tweens = par.tweens
        /\ stagger.state = par.state
        /\ Stagger_is_finished(stagger) <=> Parallel_is_finished(par)
        /\ op = "tick" => ret.stagger = ret.par
        /\ Stagger_values(stagger) = Parallel_values(par)

\* the tick on which both finished, the second child after its delay and a
\* second iteration
C38_Witness ==
    /\ stagger.offset = 0
    /\ op = "tick"
    /\ Len(par.tweens) = 2
    /\ at(par.tweens, 1).delay = 1
    /\ at(par.tweens, 1).loop_mode = Count(2)
    /\ at(par.tweens, 1).duration = 2
    /\ pre.par.state = "Playing"
    /\ pre.stagger.state = "Playing"
    /\ Parallel_is_finished(par)
    /\ Stagger_is_finished(stagger)
    /\ nplay = 5
    /\ ret.stagger = <<R(10), R(20)>>

(***************************************************************************)
(* C39: add() changes only the entry list and the id counter: elapsed,     *)
(* loops_completed and state are unchanged, so adding an entry to a        *)
(* Finished Timeline does not resume playback even when the new entry      *)
(* makes total_duration() exceed elapsed; further ticks remain no-ops      *)
(* until seek or reset.                                                    *)
(***************************************************************************)
C39_AddKeepsPlayback ==
    op = "add" =>
        /\ timeline.elapsed = pre.elapsed
        /\ timeline.loops_completed = pre.loops_completed
        /\ timeline.state = pre.state
        /\ timeline.loop_mode = pre.loop_mode
        /\ Len(timeline.entries) = Len(pre.entries) + 1
        /\ SubSeq(timeline.entries, 1, Len(pre.entries)) = pre.entries

\* a tick of a Finished Timeline changes no field, whatever was added
C39_FinishedStaysPut ==
    (timeline.state = "Finished" /\ op' = "tick") => timeline' = timeline

C39_AddDoesNotResume == []C39_AddKeepsPlayback /\ [][C39_FinishedStaysPut]_vars

\* an entry was added to a Finished Timeline and now ends after elapsed
C39_Witness ==
    /\ op = "add"
    /\ pre.state = "Finished"
    /\ Timeline_total_duration(pre) <= pre.elapsed
    /\ Timeline_total_duration(timeline) > timeline.elapsed
    /\ Timeline_is_finished(timeline)

\* the tick after such an add: still Finished, elapsed where it was
C39_TickedAfterAdd ==
    /\ op = "tick"
    /\ pre.state = "Finished"
    /\ Timeline_total_duration(pre) > pre.elapsed
    /\ timeline = pre

(***************************************************************************)
(* The three owners at length zero: a Tween of duration 0 without delay,   *)
(* a Keyframes whose frames all sit at tick 0 and a Timeline whose total   *)
(* duration is 0, under the same LoopMode, ticked and reset together as    *)
(* in SpecThreeTables.                                                     *)
(***************************************************************************)
ZlInit ==
    \E mode \in LoopModes, a \in Values :
        \E frames \in {<<Keyframe(R(a), 0, "Linear")>>,
                       <<Keyframe(R(a), 0, "Linear"),
                         Keyframe(R(10), 0, "Linear")>>},
           shapes \in {<<>>,
                       <<[start_tick |-> 0, duration |-> 0]>>,
                       <<[start_tick |-> 0, duration |-> 0],
                         [start_tick |-> 0, duration |-> 0]>>} :
            LET built == Timeline_added(
                             Timeline_with_loop(Timeline_new, mode), shapes)
            IN  /\ tween = with_loop(Tween_new(R(a), R(10), 0), mode)
                /\ pre = tween
                /\ ret = NoValue
                /\ frames_arg = frames
                /\ kf_new = Keyframes_try_new(frames_arg)
                /\ keyframes = Keyframes_with_loop(kf_new.value, mode)
                /\ kf_ret = NoValue
                /\ timeline = built.self
                /\ ids = built.ids
                /\ hits = <<>>
                /\ op = "new"
                /\ nplay = 0
                /\ arg = 0
                /\ ease = "none"
                /\ stagger = "none"
                /\ spring = "none"
                /\ CompositionAtRest

SpecZeroLength == ZlInit /\ [][TtNext]_vars

(***************************************************************************)
(* C40: a Keyframes whose total_duration() is 0 treats every tick as one   *)
(* complete iteration: under Once it is Finished after the first tick,     *)
(* under Count(n) after max(n, 1) ticks, and under Infinite or PingPong it *)
(* never finishes while loops_completed grows by 1 on every tick; a        *)
(* zero-duration Tween and a zero-total Timeline finish on their first     *)
(* tick in every loop mode.                                                *)
(***************************************************************************)
\* the ticks a zero-length Keyframes takes to finish; 0 stands for never
C40_TicksToFinish(m) ==
    CASE m.kind = "Once" -> 1
      [] m.kind = "Count" -> Max(m.count, 1)
      [] m.kind = "PingPongCount" -> Max(2 * m.count, 1)
      [] m.kind \in {"Infinite", "PingPong"} -> 0

C40_EveryTickAnIteration ==
    /\ Keyframes_total_duration(keyframes) = 0
    /\ Timeline_total_duration(timeline) = 0
    /\ LET m == keyframes.loop_mode
       IN  /\ m.kind \in {"Infinite", "PingPong"} =>
                 /\ ~Keyframes_is_finished(keyframes)
                 /\ keyframes.loops_completed = nplay
           /\ m.kind \notin {"Infinite", "PingPong"} =>
                 /\ Keyframes_is_finished(keyframes)
                       <=> nplay >= C40_TicksToFinish(m)
                 /\ nplay <= C40_TicksToFinish(m)
    /\ Tween_is_finished(tween) <=> nplay >= 1
    /\ Timeline_is_finished(timeline) <=> nplay >= 1
    /\ tween.loops_completed = 0
    /\ timeline.loops_completed = 0

\* third tick under Infinite: the Keyframes has completed three iterations
\* and plays on, the Tween and the Timeline finished on the first tick
C40_Witness ==
    /\ op = "tick"
    /\ keyframes.loop_mode = Infinite
    /\ nplay = 3
    /\ keyframes.loops_completed = 3
    /\ keyframes.state = "Playing"
    /\ Tween_is_finished(tween)
    /\ Timeline_is_finished(timeline)

\* the second tick finished a Count(2) Keyframes
C40_CountTwo ==
    /\ op = "tick"
    /\ keyframes.loop_mode = Count(2)
    /\ nplay = 2
    /\ Keyframes_is_finished(keyframes)
    /\ keyframes.loops_completed = 2

(***************************************************************************)
(* The easing functions (easing.rs).  The elementary functions of the      *)
(* Float trait are exact on the arguments given below and undefined        *)
(* elsewhere: sqrt on squares of rationals, powf for whole exponents, sin  *)
(* and cos on the angles whose sine is rational.  Angles are carried in    *)
(* units of pi, so pi is 1 and tau is 2, and sin and cos take their        *)
(* argument so.                                                            *)
(***************************************************************************)
half == Rat(1, 2)

two == R(2)

pi == R(1)

tau == R(2)

\* the whole number whose square is n
IntRoot(n) == CHOOSE r \in 0..n : r * r = n

sqrt(x) == Rat(IntRoot(x[1]), IntRoot(x[2]))

powf(base, exp) ==
    CASE exp[2] = 1 /\ exp[1] >= 0 -> Rat(base[1] ^ exp[1], base[2] ^ exp[1])
      [] exp[2] = 1 /\ exp[1] < 0 ->
            Rat(base[2] ^ (0 - exp[1]), base[1] ^ (0 - exp[1]))

\* sine of x * pi, for x a multiple of 1/6 whose sine is rational
sin(x) ==
    LET turn == Rat(x[1] % (2 * x[2]), x[2])
    IN  CASE turn \in {R(0), R(1)} -> zero
          [] turn \in {Rat(1, 6), Rat(5, 6)} -> half
          [] turn = Rat(1, 2) -> one
          [] turn \in {Rat(7, 6), Rat(11, 6)} -> neg(half)
          [] turn = Rat(3, 2) -> neg(one)

cos(x) == sin(add(x, half))

ease_out_quad(t) ==
    LET u == sub(one, t)
    IN  sub(one, mul(u, u))

ease_in_out_quad(t) ==
    IF lt(t, half)
    THEN mul(mul(two, t), t)
    ELSE LET u == add(mul(R(-2), t), two)
         IN  sub(one, div(mul(u, u), two))

ease_in_cubic(t) == mul(mul(t, t), t)

ease_out_cubic(t) ==
    LET u == sub(one, t)
    IN  sub(one, mul(mul(u, u), u))

ease_in_out_cubic(t) ==
    IF lt(t, half)
    THEN mul(mul(mul(R(4), t), t), t)
    ELSE LET u == add(mul(R(-2), t), two)
         IN  sub(one, div(mul(mul(u, u), u), two))

ease_in_quart(t) == mul(mul(mul(t, t), t), t)

ease_out_quart(t) ==
    LET u == sub(one, t)
    IN  sub(one, mul(mul(mul(u, u), u), u))

ease_in_out_quart(t) ==
    IF lt(t, half)
    THEN mul(mul(mul(mul(R(8), t), t), t), t)
    ELSE LET u == add(mul(R(-2), t), two)
         IN  sub(one, div(mul(mul(mul(u, u), u), u), two))

ease_in_quint(t) == mul(mul(mul(mul(t, t), t), t), t)

ease_out_quint(t) ==
    LET u == sub(one, t)
    IN  sub(one, mul(mul(mul(mul(u, u), u), u), u))

ease_in_out_quint(t) ==
    IF lt(t, half)
    THEN mul(mul(mul(mul(mul(R(16), t), t), t), t), t)
    ELSE LET u == add(mul(R(-2), t), two)
         IN  sub(one, div(mul(mul(mul(mul(u, u), u), u), u), two))

ease_in_sine(t) == sub(one, cos(div(mul(t, pi), two)))

ease_out_sine(t) == sin(div(mul(t, pi), two))

ease_in_out_sine(t) == div(neg(sub(cos(mul(pi, t)), one)), two)

\* an ease_in_expo without the special case for t = 0
ease_in_expo_unguarded(t) == powf(two, sub(mul(R(10), t), R(10)))

ease_in_expo(t) ==
    IF t = zero THEN zero
    ELSE powf(two, sub(mul(R(10), t), R(10)))

ease_out_expo(t) ==
    IF t = one THEN one
    ELSE sub(one, powf(two, mul(R(-10), t)))

ease_in_out_expo(t) ==
    IF t = zero THEN zero
    ELSE IF t = one THEN one
    ELSE IF lt(t, half)
    THEN div(powf(two, sub(mul(R(20), t), R(10))), two)
    ELSE div(sub(two, powf(two, add(mul(R(-20), t), R(10)))), two)

ease_in_circ(t) == sub(one, sqrt(sub(one, mul(t, t))))

ease_out_circ(t) ==
    LET u == sub(t, one)
    IN  sqrt(sub(one, mul(u, u)))

ease_in_out_circ(t) ==
    IF lt(t, half)
    THEN LET u == mul(two, t)
         IN  div(sub(one, sqrt(sub(one, mul(u, u)))), two)
    ELSE LET u == add(mul(R(-2), t), two)
         IN  div(add(sqrt(sub(one, mul(u, u))), one), two)

ease_in_back(t) ==
    LET c1 == Rat(170158, 100000)
        c3 == add_lcd(c1, one)
    IN  sub_lcd(mul(mul(mul(c3, t), t), t), mul(mul(c1, t), t))

ease_out_back(t) ==
    LET c1 == Rat(170158, 100000)
        c3 == add_lcd(c1, one)
        u == sub_lcd(t, one)
    IN  add_lcd(add_lcd(one, mul(mul(mul(c3, u), u), u)),
                mul(mul(c1, u), u))

ease_in_out_back(t) ==
    LET c1 == Rat(170158, 100000)
        c2 == mul(c1, Rat(1525, 1000))
    IN  IF lt(t, half)
        THEN LET u == mul(two, t)
             IN  div(mul(mul(u, u),
                         sub_lcd(mul(add_lcd(c2, one), u), c2)),
                     two)
        ELSE LET u == sub_lcd(mul(two, t), two)
             IN  div(add_lcd(mul(mul(u, u),
                                 add_lcd(mul(add_lcd(c2, one), u), c2)),
                             two),
                     two)

ease_in_elastic(t) ==
    IF t = zero \/ t = one THEN t
    ELSE LET c4 == div(tau, R(3))
         IN  mul(neg(powf(two, sub(mul(R(10), t), R(10)))),
                 sin(mul(sub(mul(R(10), t), Rat(1075, 100)), c4)))

ease_out_elastic(t) ==
    IF t = zero \/ t = one THEN t
    ELSE LET c4 == div(tau, R(3))
         IN  add(mul(powf(two, mul(R(-10), t)),
                     sin(mul(sub(mul(R(10), t), Rat(75, 100)), c4))),
                 one)

ease_in_out_elastic(t) ==
    IF t = zero \/ t = one THEN t
    ELSE LET c5 == div(tau, Rat(45, 10))
         IN  IF lt(t, half)
             THEN div(neg(mul(powf(two, sub(mul(R(20), t), R(10))),
                              sin(mul(sub(mul(R(20), t), Rat(11125, 1000)),
                                      c5)))),
                      two)
             ELSE add(div(mul(powf(two, add(mul(R(-20), t), R(10))),
                              sin(mul(sub(mul(R(20), t), Rat(11125, 1000)),
                                      c5))),
                          two),
                      one)

ease_out_bounce(t) ==
    LET n1 == Rat(75625, 10000)
        d1 == Rat(275, 100)
    IN  IF lt(t, div(one, d1))
        THEN mul(mul(n1, t), t)
        ELSE IF lt(t, div(two, d1))
        THEN LET u == sub(t, div(Rat(15, 10), d1))
             IN  add(mul(mul(n1, u), u), Rat(75, 100))
        ELSE IF lt(t, div(Rat(25, 10), d1))
        THEN LET u == sub(t, div(Rat(225, 100), d1))
             IN  add(mul(mul(n1, u), u), Rat(9375, 10000))
        ELSE LET u == sub(t, div(Rat(2625, 1000), d1))
             IN  add(mul(mul(n1, u), u), Rat(984375, 1000000))

ease_in_bounce(t) == sub(one, ease_out_bounce(sub(one, t)))

ease_in_out_bounce(t) ==
    IF lt(t, half)
    THEN div(sub(one, ease_out_bounce(sub(one, mul(two, t)))), two)
    ELSE div(add(one, ease_out_bounce(sub(mul(two, t), one))), two)

\* the arms of Easing::evaluate for the variants that carry no data; the
\* CubicBezier arm is the solver below
Easing_evaluate(easing, t) ==
    CASE easing = "Linear" -> t
      [] easing = "EaseInQuad" -> ease_in_quad(t)
      [] easing = "EaseOutQuad" -> ease_out_quad(t)
      [] easing = "EaseInOutQuad" -> ease_in_out_quad(t)
      [] easing = "EaseInCubic" -> ease_in_cubic(t)
      [] easing = "EaseOutCubic" -> ease_out_cubic(t)
      [] easing = "EaseInOutCubic" -> ease_in_out_cubic(t)
      [] easing = "EaseInQuart" -> ease_in_quart(t)
      [] easing = "EaseOutQuart" -> ease_out_quart(t)
      [] easing = "EaseInOutQuart" -> ease_in_out_quart(t)
      [] easing = "EaseInQuint" -> ease_in_quint(t)
      [] easing = "EaseOutQuint" -> ease_out_quint(t)
      [] easing = "EaseInOutQuint" -> ease_in_out_quint(t)
      [] easing = "EaseInSine" -> ease_in_sine(t)
      [] easing = "EaseOutSine" -> ease_out_sine(t)
      [] easing = "EaseInOutSine" -> ease_in_out_sine(t)
      [] easing = "EaseInExpo" -> ease_in_expo(t)
      [] easing = "EaseOutExpo" -> ease_out_expo(t)
      [] easing = "EaseInOutExpo" -> ease_in_out_expo(t)
      [] easing = "EaseInCirc" -> ease_in_circ(t)
      [] easing = "EaseOutCirc" -> ease_out_circ(t)
      [] easing = "EaseInOutCirc" -> ease_in_out_circ(t)
      [] easing = "EaseInBack" -> ease_in_back(t)
      [] easing = "EaseOutBack" -> ease_out_back(t)
      [] easing = "EaseInOutBack" -> ease_in_out_back(t)
      [] easing = "EaseInElastic" -> ease_in_elastic(t)
      [] easing = "EaseOutElastic" -> ease_out_elastic(t)
      [] easing = "EaseInOutElastic" -> ease_in_out_elastic(t)
      [] easing = "EaseInBounce" -> ease_in_bounce(t)
      [] easing = "EaseOutBounce" -> ease_out_bounce(t)
      [] easing = "EaseInOutBounce" -> ease_in_out_bounce(t)

(***************************************************************************)
(* Easing::evaluate and cubic_bezier (easing.rs).  `ease` is one call of   *)
(* evaluate: the variant, its control points when it is a CubicBezier, the *)
(* argument t, and the position of the call.  A variant without data is    *)
(* evaluated in one step; the solver of cubic_bezier takes one step for    *)
(* each pass of its two loops, and the floats of the solver are rounded to *)
(* Precision binary places after every operation.                          *)
(***************************************************************************)
Precision == 8

fl(x) ==
    LET scale == 2 ^ Precision
    IN  Rat((2 * x[1] * scale + x[2]) \div (2 * x[2]), scale)

fadd(a, b) == fl(add(a, b))

fsub(a, b) == fl(sub(a, b))

fmul(a, b) == fl(mul(a, b))

fdiv(a, b) == fl(div(a, b))

bezier_component(s, p1, p2) ==
    LET u == fsub(one, s)
        three == R(3)
    IN  fadd(fadd(fmul(fmul(fmul(fmul(three, u), u), s), p1),
                  fmul(fmul(fmul(fmul(three, u), s), s), p2)),
             fmul(fmul(s, s), s))

bezier_derivative(s, p1, p2) ==
    LET u == fsub(one, s)
        three == R(3)
        six == R(6)
    IN  fadd(fadd(fmul(fmul(fmul(three, u), u), p1),
                  fmul(fmul(fmul(six, u), s), fsub(p2, p1))),
             fmul(fmul(fmul(three, s), s), fsub(one, p2)))

\* for _ in 0..8 and for _ in 0..20
NewtonIterations == 8

BisectIterations == 20

epsilon == Rat(1, 10000000)

\* the two early returns of cubic_bezier, else let mut s = t
cubic_bezier_enter(e) ==
    IF le(e.t, zero) THEN [e EXCEPT !.pc = "done", !.out = zero]
    ELSE IF le(one, e.t) THEN [e EXCEPT !.pc = "done", !.out = one]
    ELSE [e EXCEPT !.pc = "newton", !.s = e.t]

\* one pass of the first loop
cubic_bezier_newton(e) ==
    LET bx == bezier_component(e.s, e.x1, e.x2)
        dbx == bezier_derivative(e.s, e.x1, e.x2)
    IN  IF lt_lcd(abs(dbx), epsilon)
        THEN [e EXCEPT !.pc = "residual"]
        ELSE [e EXCEPT !.s = clamp(fsub(e.s, fdiv(fsub(bx, e.t), dbx)),
                                   zero, one),
                       !.newton = e.newton + 1,
                       !.pc = IF e.newton + 1 = NewtonIterations
                              THEN "residual" ELSE "newton"]

\* a residual test that sends every call into the second loop
cubic_bezier_residual_always(e) ==
    [e EXCEPT !.residual = abs(fsub(bezier_component(e.s, e.x1, e.x2), e.t)),
              !.lo = zero, !.hi = one, !.pc = "bisect"]

\* let residual = ...; if residual > 1e-5 { let mut lo = 0; let mut hi = 1
cubic_bezier_residual(e) ==
    LET residual == abs(fsub(bezier_component(e.s, e.x1, e.x2), e.t))
    IN  IF lt_lcd(Rat(1, 100000), residual)
        THEN [e EXCEPT !.residual = residual, !.lo = zero, !.hi = one,
                       !.pc = "bisect"]
        ELSE [e EXCEPT !.residual = residual, !.pc = "return"]

\* one pass of the second loop
cubic_bezier_bisect(e) ==
    LET s == fdiv(fadd(e.lo, e.hi), two)
        bx == bezier_component(s, e.x1, e.x2)
    IN  [e EXCEPT !.s = s,
                  !.lo = IF lt(bx, e.t) THEN s ELSE e.lo,
                  !.hi = IF lt(bx, e.t) THEN e.hi ELSE s,
                  !.bisect = e.bisect + 1,
                  !.pc = IF e.bisect + 1 = BisectIterations
                         THEN "return" ELSE "bisect"]

\* the last line of cubic_bezier
cubic_bezier_return(e) ==
    [e EXCEPT !.out = bezier_component(e.s, e.y1, e.y2), !.pc = "done"]

\* the 30 variants without data, and Linear
NamedEasings ==
    {"Linear",
     "EaseInQuad", "EaseOutQuad", "EaseInOutQuad",
     "EaseInCubic", "EaseOutCubic", "EaseInOutCubic",
     "EaseInQuart", "EaseOutQuart", "EaseInOutQuart",
     "EaseInQuint", "EaseOutQuint", "EaseInOutQuint",
     "EaseInSine", "EaseOutSine", "EaseInOutSine",
     "EaseInExpo", "EaseOutExpo", "EaseInOutExpo",
     "EaseInCirc", "EaseOutCirc", "EaseInOutCirc",
     "EaseInBack", "EaseOutBack", "EaseInOutBack",
     "EaseInElastic", "EaseOutElastic", "EaseInOutElastic",
     "EaseInBounce", "EaseOutBounce", "EaseInOutBounce"}

\* the arguments in [0, 1] at which the elementary functions above give the
\* value of a variant exactly
ExactAt(easing) ==
    CASE easing = "EaseInSine" -> {zero, Rat(2, 3), one}
      [] easing = "EaseOutSine" -> {zero, Rat(1, 3), one}
      [] easing = "EaseInOutSine" -> {zero, Rat(1, 3), half, Rat(2, 3), one}
      [] easing \in {"EaseInExpo", "EaseOutExpo", "EaseInOutExpo",
                     "EaseInElastic", "EaseOutElastic"} ->
            {Rat(k, 10) : k \in 0..10}
      [] easing = "EaseInOutElastic" ->
            {zero, one} \cup {Rat(1 + 3 * k, 20) : k \in 0..6}
      [] easing = "EaseInCirc" -> {zero, Rat(3, 5), Rat(4, 5), one}
      [] easing = "EaseOutCirc" -> {zero, Rat(1, 5), Rat(2, 5), one}
      [] easing = "EaseInOutCirc" ->
            {zero, Rat(3, 10), Rat(2, 5), half, Rat(3, 5), Rat(7, 10), one}
      [] OTHER -> {Rat(k, 8) : k \in 0..8}

\* Linear is also called outside the unit interval
LinearArgs == {Rat(k, 8) : k \in -4..12}

\* control points and arguments of the CubicBezier calls: the curve of the
\* tests of easing.rs, the straight line, and points outside [0, 1]
BzX == {zero, fl(Rat(42, 100)), fl(Rat(58, 100)), one, two, Rat(-1, 2)}

BzY == {zero, one, Rat(3, 2)}

BzT == {Rat(k, 8) : k \in -2..10}

EaseCall(easing, t, x1, y1, x2, y2) ==
    [easing |-> easing, t |-> t, x1 |-> x1, y1 |-> y1, x2 |-> x2, y2 |-> y2,
     pc |-> "call", s |-> zero, lo |-> zero, hi |-> zero,
     residual |-> zero, newton |-> 0, bisect |-> 0, out |-> zero]

\* before the call: no variant has been evaluated
EaseInit ==
    /\ tween = "none"
    /\ pre = "none"
    /\ ret = "none"
    /\ op = "new"
    /\ nplay = 0
    /\ KeyframesAtRest
    /\ CompositionAtRest
    /\ stagger = "none"
    /\ timeline = "none"
    /\ ids = <<>>
    /\ hits = <<>>
    /\ arg = 0
    /\ spring = "none"
    /\ ease = [EaseCall("Linear", zero, zero, zero, zero, zero)
                  EXCEPT !.pc = "idle"]

EaseKeep == UNCHANGED <<tween, pre, ret, op, nplay, kfvars, compvars,
                        stagger, timeline, ids, hits, arg, spring>>

\* the caller builds an Easing and calls evaluate(t) on it
EaseBegin ==
    /\ ease.pc = "idle"
    /\ \/ \E easing \in NamedEasings :
            \E t \in IF easing = "Linear" THEN LinearArgs
                                          ELSE ExactAt(easing) :
                ease' = EaseCall(easing, t, zero, zero, zero, zero)
       \/ \E t \in BzT, x1 \in BzX, x2 \in BzX, y1 \in BzY, y2 \in BzY :
            ease' = EaseCall("CubicBezier", t, x1, y1, x2, y2)
    /\ EaseKeep

\* Easing::evaluate on a variant without data
EaseEvaluate ==
    /\ ease.pc = "call"
    /\ ease.easing \in NamedEasings
    /\ ease' = [ease EXCEPT !.out = Easing_evaluate(ease.easing, ease.t),
                            !.pc = "done"]
    /\ EaseKeep

\* Easing::evaluate on a CubicBezier: the call of cubic_bezier
BzEnter ==
    /\ ease.pc = "call"
    /\ ease.easing = "CubicBezier"
    /\ ease' = cubic_bezier_enter(ease)
    /\ EaseKeep

BzNewton ==
    /\ ease.pc = "newton"
    /\ ease' = cubic_bezier_newton(ease)
    /\ EaseKeep

BzResidual ==
    /\ ease.pc = "residual"
    /\ ease' = cubic_bezier_residual(ease)
    /\ EaseKeep

BzBisect ==
    /\ ease.pc = "bisect"
    /\ ease' = cubic_bezier_bisect(ease)
    /\ EaseKeep

BzReturn ==
    /\ ease.pc = "return"
    /\ ease' = cubic_bezier_return(ease)
    /\ EaseKeep

\* the steps of a call that has begun
EaseRun ==
    \/ EaseEvaluate
    \/ BzEnter
    \/ BzNewton
    \/ BzResidual
    \/ BzBisect
    \/ BzReturn

EaseNext ==
    \/ EaseBegin
    \/ EaseRun

SpecEasing == EaseInit /\ [][EaseNext]_vars

(***************************************************************************)
(* C31: every easing variant (Linear, the 30 named families, CubicBezier)  *)
(* maps input 0 to output 0 and input 1 to output 1, within 1e-4, and      *)
(* Linear returns its input unchanged, inside the unit interval and        *)
(* outside it.                                                             *)
(***************************************************************************)
C31_EndpointsAndIdentity ==
    ease.pc = "done" =>
        /\ ease.t = zero => le(abs(ease.out), Rat(1, 10000))
        /\ ease.t = one => le(abs(sub(ease.out, one)), Rat(1, 10000))
        /\ ease.easing = "Linear" => ease.out = ease.t

\* a family with several branches has been evaluated at 1
C31_Witness ==
    /\ ease.pc = "done"
    /\ ease.easing = "EaseOutBounce"
    /\ ease.t = one
    /\ ease.out = one

\* a CubicBezier whose control points lie outside [0, 1] evaluated at 0
C31_BezierAtZero ==
    /\ ease.pc = "done"
    /\ ease.easing = "CubicBezier"
    /\ ease.t = zero
    /\ ease.x1 = two
    /\ ease.y2 = Rat(3, 2)
    /\ ease.out = zero

\* Linear evaluated outside the unit interval
C31_LinearOutside ==
    /\ ease.pc = "done"
    /\ ease.easing = "Linear"
    /\ ease.t = Rat(3, 2)
    /\ ease.out = Rat(3, 2)

\* between the endpoints the back family leaves the unit interval
C31_Overshoot ==
    /\ ease.pc = "done"
    /\ ease.easing = "EaseOutBack"
    /\ lt(one, ease.out)

(***************************************************************************)
(* C32: cubic_bezier returns exactly 0 for every t <= 0 and exactly 1 for  *)
(* every t >= 1 without a pass of either loop, whatever the control        *)
(* points; for 0 < t < 1 it returns after at most 8 Newton steps, each     *)
(* result clamped into [0, 1] and the loop left early when |dx/ds| < 1e-7, *)
(* followed by at most 20 bisection steps, 28 passes at most, and the      *)
(* bisection runs only when the residual of the Newton loop exceeds 1e-5.  *)
(***************************************************************************)
C32_InSolver == ease.pc \in {"newton", "residual", "bisect", "return"}

C32_Bounded ==
    /\ ease.newton <= 8
    /\ ease.bisect <= 20
    /\ ease.newton + ease.bisect <= 28
    /\ C32_InSolver =>
          /\ ease.easing = "CubicBezier"
          /\ lt(zero, ease.t) /\ lt(ease.t, one)
          /\ le(zero, ease.s) /\ le(ease.s, one)
    /\ (ease.pc = "bisect" \/ ease.bisect > 0) =>
          lt_lcd(Rat(1, 100000), ease.residual)
    /\ (ease.pc = "return" /\ ease.bisect = 0) =>
          ~lt_lcd(Rat(1, 100000), ease.residual)
    /\ (ease.pc = "return" /\ ease.bisect > 0) => ease.bisect = 20
    /\ (ease.pc = "done" /\ ease.easing = "CubicBezier") =>
          /\ le(ease.t, zero) => ease.out = zero
          /\ le(one, ease.t) => ease.out = one
          /\ (le(ease.t, zero) \/ le(one, ease.t)) =>
                ease.newton = 0 /\ ease.bisect = 0

\* the passes and steps a call can still take: 8 passes of the first loop,
\* the residual test, 20 passes of the second loop, the last line
C32_Remaining(e) ==
    CASE e.pc = "call" -> 31
      [] e.pc = "newton" -> 30 - e.newton
      [] e.pc = "residual" -> 22
      [] e.pc = "bisect" -> 21 - e.bisect
      [] e.pc = "return" -> 1
      [] e.pc = "done" -> 0

\* a call outside 0 < t < 1 returns in its first step, a Newton pass that
\* finds a flat derivative leaves the loop without moving s, and every
\* step of a call brings its return nearer
C32_Steps ==
    /\ (ease.pc = "call" /\ ease.easing = "CubicBezier"
            /\ (le(ease.t, zero) \/ le(one, ease.t))) =>
          ease'.pc = "done"
    /\ (ease.pc = "newton"
            /\ lt_lcd(abs(bezier_derivative(ease.s, ease.x1, ease.x2)),
                      Rat(1, 10000000))) =>
          /\ ease'.pc = "residual"
          /\ ease'.s = ease.s
          /\ ease'.newton = ease.newton
    /\ ease.pc = "newton" => ease'.newton <= ease.newton + 1
    /\ ease.pc = "bisect" => ease'.bisect = ease.bisect + 1
    /\ ease.pc \notin {"idle", "done"} =>
          /\ C32_Remaining(ease') < C32_Remaining(ease)
          /\ C32_Remaining(ease') >= 0

C32_BoundedSolver == []C32_Bounded /\ [][C32_Steps]_vars

\* a call that used every pass of both loops
C32_Witness ==
    /\ ease.pc = "done"
    /\ ease.easing = "CubicBezier"
    /\ ease.newton = 8
    /\ ease.bisect = 20

\* the Newton loop left on a flat derivative, at the root
C32_EarlyStop ==
    /\ ease.pc = "done"
    /\ ease.easing = "CubicBezier"
    /\ lt(zero, ease.t) /\ lt(ease.t, one)
    /\ ease.newton = 0
    /\ ease.bisect = 0

\* the Newton loop left on a flat derivative away from the root
C32_BisectionAlone ==
    /\ ease.pc = "done"
    /\ ease.newton = 0
    /\ ease.bisect = 20

\* the Newton loop found the root and the bisection did not run
C32_NewtonAlone ==
    /\ ease.pc = "done"
    /\ ease.easing = "CubicBezier"
    /\ ease.newton > 0
    /\ ease.bisect = 0

\* a Newton step was clamped at the upper end
C32_Clamped ==
    /\ ease.pc = "newton"
    /\ ease.newton > 0
    /\ ease.s = one

====
